---------------------------- MODULE Spec2Model ----------------------------
(***************************************************************************)
(* A model of the local query engine of SC-AI-Analyst:                     *)
(*   - executePlan            (src/services/planExecutor.ts)               *)
(*   - the local handlers     (src/services/localAnalysisService.ts)       *)
(*   - generateInsights       (src/services/geminiService.ts)              *)
(*   - the chat, the knowledge files and the session of App                *)
(*                            (src/App.tsx, src/unnamed/part_000)          *)
(* over the in-memory dataset (CSVData, src/types.ts).                     *)
(*                                                                         *)
(* Text is modelled as a sequence of one-character strings, so that        *)
(* toLowerCase, includes and the truthiness of a cell are computed, not    *)
(* assumed.  A JavaScript value is a record [t, s]: t is its type and s    *)
(* its text when it is a string.  A number is a record [num, den] (an      *)
(* exact quotient), formatted by ToFixed2 where the code calls toFixed(2). *)
(* Column names are texts too: a row is a function from the names of its   *)
(* own properties to their texts.                                          *)
(***************************************************************************)
EXTENDS Integers, Sequences, FiniteSets, TLC

VARIABLES
  csvData,  \* the loaded dataset, [headers, rows]
  last,     \* the last query: the operation, its input and what it returned
  first,    \* the first executePlan query since the dataset was loaded
  queries,  \* the number of queries so far
  chat      \* the chat of App: messages, isLoading, knowledgeFiles, and the
            \* calls made to generateInsights; in the session that can
            \* discard its dataset, the calls in flight and the loads too

vars == <<csvData, last, first, queries, chat>>

---------------------------------------------------------------------------
(* Bounds of the model.                                                    *)

MaxRows == 2

MaxFilters == 2

MaxQueries == 3

\* The most rows, and distinct values, of a dataset of SpecHues.
MaxHueValues == 21

\* The most knowledge files kept, and the most files of one selection.
MaxKnowledgeFiles == 4

MaxBatch == 2

\* The most files loaded in one session.
MaxLoads == 2

---------------------------------------------------------------------------
(* JavaScript values and strings.                                          *)

Str(s) == [t |-> "string", s |-> s]

Undefined == [t |-> "undefined", s |-> <<>>]

\* A value inherited from Object.prototype (the function Object, toString, ...).
InheritedFunction == [t |-> "function", s |-> <<>>]

\* Property names every plain object inherits from Object.prototype.  The
\* rows are plain objects (built from {} in App.tsx), and so is the counts
\* record of handleDistribution.
\* "constructor" and "valueOf" stand for all of them (toString,
\* hasOwnProperty, ... behave alike).
ConstructorName == <<"c", "o", "n", "s", "t", "r", "u", "c", "t", "o", "r">>

ValueOfName == <<"v", "a", "l", "u", "e", "O", "f">>

ObjectPrototypeKeys == {ConstructorName, ValueOfName}

\* !!v for the values of the model: only "" and undefined are falsy.
Truthy(v) == \/ v.t = "function"
             \/ v.t = "string" /\ v.s # <<>>

LowerTable == ("A" :> "a") @@ ("B" :> "b") @@ ("N" :> "n") @@ ("U" :> "u")
              @@ ("P" :> "p") @@ ("S" :> "s") @@ ("F" :> "f") @@ ("E" :> "e")
              @@ ("D" :> "d") @@ ("X" :> "x") @@ ("C" :> "c")

ToLowerChar(c) == IF c \in DOMAIN LowerTable THEN LowerTable[c] ELSE c

\* String.prototype.toLowerCase
ToLowerCase(s) == [i \in 1..Len(s) |-> ToLowerChar(s[i])]

\* String.prototype.includes
Includes(s, sub) ==
  \E i \in 0..(Len(s) - Len(sub)) : SubSeq(s, i + 1, i + Len(sub)) = sub

\* String(v) for a filter value: String(undefined) is the text "undefined".
StringOf(v) ==
  IF v.t = "undefined" THEN <<"u", "n", "d", "e", "f", "i", "n", "e", "d">>
  ELSE v.s

\* row[key]: an own property, else what the prototype chain gives.
Get(row, key) ==
  IF key \in DOMAIN row THEN Str(row[key])
  ELSE IF key \in ObjectPrototypeKeys THEN InheritedFunction
  ELSE Undefined

\* A variant of OrEmpty: String(v) in place of (v || ""), as line 23 does
\* for the filter value, so that a missing cell reads "undefined".
OrEmptyByString(v) == IF v.t = "string" THEN v ELSE Str(StringOf(v))

\* (v || "")
OrEmpty(v) == IF Truthy(v) THEN v ELSE Str(<<>>)

---------------------------------------------------------------------------
(* Numbers: exact quotients num/den, den > 0.                              *)

Num(n) == [num |-> n, den |-> 1]

Quot(n, d) == [num |-> n, den |-> d]

\* Number.prototype.toFixed(2), as a count of hundredths: the nearest one,
\* the larger of the two when the value lies exactly between them.
ToFixed2(x) == (2 * x.num * 100 + x.den) \div (2 * x.den)

---------------------------------------------------------------------------
(* executePlan, src/services/planExecutor.ts                               *)

\* A variant of KeepRow that compares the cell as it is stored, without
\* toLowerCase.
KeepRowCaseSensitive(filter, row) ==
  LET cellValue == OrEmpty(Get(row, filter.column)).s
      filterValue == ToLowerCase(StringOf(filter.value))
  IN  CASE filter.operator = "equals" -> cellValue = filterValue
        [] filter.operator = "not_equals" -> cellValue # filterValue
        [] filter.operator = "contains" -> Includes(cellValue, filterValue)
        [] filter.operator = "is_empty" -> cellValue = <<>>
        [] filter.operator = "is_not_empty" -> cellValue # <<>>
        [] OTHER -> TRUE

\* The callback of filteredRows.filter(...), lines 21-39.  Evaluated only
\* for rows on which CellThrows is false.
KeepRow(filter, row) ==
  LET cellValue == ToLowerCase(OrEmpty(Get(row, filter.column)).s)
      filterValue == ToLowerCase(StringOf(filter.value))
  IN  CASE filter.operator = "equals" -> cellValue = filterValue
        [] filter.operator = "not_equals" -> cellValue # filterValue
        [] filter.operator = "contains" -> Includes(cellValue, filterValue)
        [] filter.operator = "is_empty" -> cellValue = <<>>
        [] filter.operator = "is_not_empty" -> cellValue # <<>>
        [] OTHER -> TRUE

\* Line 22: (row[filter.column] || "").toLowerCase() is a TypeError when the
\* property read yields a function, which has no toLowerCase.
CellThrows(filter, row) == OrEmpty(Get(row, filter.column)).t # "string"

\* A variant of FilterRows that collects the kept rows last to first.
RECURSIVE FilterRowsReversed(_, _)
FilterRowsReversed(rows, filter) ==
  IF rows = <<>> THEN <<>>
  ELSE IF KeepRow(filter, Head(rows))
       THEN FilterRowsReversed(Tail(rows), filter) \o <<Head(rows)>>
       ELSE FilterRowsReversed(Tail(rows), filter)

RECURSIVE FilterRows(_, _)
FilterRows(rows, filter) ==
  IF rows = <<>> THEN <<>>
  ELSE IF KeepRow(filter, Head(rows))
       THEN <<Head(rows)>> \o FilterRows(Tail(rows), filter)
       ELSE FilterRows(Tail(rows), filter)

\* Lines 19-41: each filter narrows the current rows; the first callback
\* that throws ends executePlan.
RECURSIVE ApplyFilters(_, _)
ApplyFilters(filters, rows) ==
  IF filters = <<>> THEN [threw |-> FALSE, rows |-> rows]
  ELSE IF \E i \in DOMAIN rows : CellThrows(Head(filters), rows[i])
       THEN [threw |-> TRUE, rows |-> <<>>]
       ELSE ApplyFilters(Tail(filters), FilterRows(rows, Head(filters)))

CountRows(rows, Test(_)) == Cardinality({i \in DOMAIN rows : Test(rows[i])})

TrackingNo == <<"t", "r", "a", "c", "k", "i", "n", "g", "_", "n", "o">>

VendTrackNo == <<"v", "e", "n", "d", "_", "t", "r", "a", "c", "k", "_", "n", "o">>

ReturnPo == <<"r", "e", "t", "u", "r", "n", "_", "p", "o">>

\* A variant of IsMismatch without the second operand: an empty
\* vend_track_no counts as a mismatch too.
IsMismatchCountingEmpty(r) == Get(r, TrackingNo) # Get(r, VendTrackNo)

\* Line 57: r.tracking_no !== r.vend_track_no && r.vend_track_no
IsMismatch(r) == /\ Get(r, TrackingNo) # Get(r, VendTrackNo)
                 /\ Truthy(Get(r, VendTrackNo))

\* A variant of IsMissingPo that compares with the empty string
\* (r.return_po === ""), so that a row without the field is not counted.
IsMissingPoWhenStored(r) == Get(r, ReturnPo) = Str(<<>>)

\* Line 61: !r.return_po
IsMissingPo(r) == ~Truthy(Get(r, ReturnPo))

\* A variant of CalcValue without the test of line 48: the rates divide by
\* total whatever it is.
CalcValueUnguarded(calc, rows) ==
  LET total == Len(rows)
  IN  CASE calc = "count" -> [set |-> TRUE, v |-> Num(total)]
        [] calc = "mismatch_rate" ->
             [set |-> TRUE, v |-> Quot(CountRows(rows, IsMismatch) * 100, total)]
        [] calc = "missing_po_rate" ->
             [set |-> TRUE, v |-> Quot(CountRows(rows, IsMissingPo) * 100, total)]
        [] OTHER -> [set |-> FALSE, v |-> Num(0)]

\* Lines 47-65, the value one calculation leaves in metrics[calc]; "absent"
\* when the switch has no case for it.
CalcValue(calc, rows) ==
  LET total == Len(rows)
  IN  IF total = 0 THEN [set |-> TRUE, v |-> Num(0)]
      ELSE CASE calc = "count" -> [set |-> TRUE, v |-> Num(total)]
             [] calc = "mismatch_rate" ->
                  [set |-> TRUE, v |-> Quot(CountRows(rows, IsMismatch) * 100, total)]
             [] calc = "missing_po_rate" ->
                  [set |-> TRUE, v |-> Quot(CountRows(rows, IsMissingPo) * 100, total)]
             [] OTHER -> [set |-> FALSE, v |-> Num(0)]

\* Lines 44-66: metrics as a function from the names that were assigned.
Metrics(calcs, rows) ==
  LET names == {calcs[i] : i \in DOMAIN calcs}
      assigned == {c \in names : CalcValue(c, rows).set}
  IN  [c \in assigned |-> CalcValue(c, rows).v]

NoMetrics == [c \in {} |-> Num(0)]

\* plan.filters / plan.calculations may be absent: if (plan.filters) ...
ListOf(opt) == IF opt.present THEN opt.items ELSE <<>>

\* A variant of DataAfterExecutePlan: the rows are filtered in place
\* (data.rows = data.rows.filter(...)), so the dataset keeps only the
\* rows of the subset.
DataNarrowedByExecutePlan(plan, data) ==
  LET f == ApplyFilters(ListOf(plan.filters), data.rows)
  IN  IF f.threw THEN data ELSE [data EXCEPT !.rows = f.rows]

\* Line 16 copies data.rows and Array.prototype.filter builds new arrays:
\* nothing executePlan does writes to data.  This is the dataset as the
\* call leaves it.
DataAfterExecutePlan(plan, data) == data

\* A variant of ExecutePlan that calculates over data.rows, not over the
\* filtered rows.
ExecutePlanOverAllRows(plan, data) ==
  LET f == ApplyFilters(ListOf(plan.filters), data.rows)
  IN  IF f.threw
      THEN [status |-> "TypeError", metrics |-> NoMetrics,
            subset |-> [headers |-> <<>>, rows |-> <<>>],
            data |-> DataAfterExecutePlan(plan, data)]
      ELSE [status |-> "ok",
            metrics |-> Metrics(ListOf(plan.calculations), data.rows),
            subset |-> [headers |-> data.headers, rows |-> f.rows],
            data |-> DataAfterExecutePlan(plan, data)]

\* executePlan(plan, data): what it returns (status "ok") or that it threw,
\* and the dataset as it leaves it.
ExecutePlan(plan, data) ==
  LET f == ApplyFilters(ListOf(plan.filters), data.rows)
  IN  IF f.threw
      THEN [status |-> "TypeError", metrics |-> NoMetrics,
            subset |-> [headers |-> <<>>, rows |-> <<>>],
            data |-> DataAfterExecutePlan(plan, data)]
      ELSE [status |-> "ok",
            metrics |-> Metrics(ListOf(plan.calculations), f.rows),
            subset |-> [headers |-> data.headers, rows |-> f.rows],
            data |-> DataAfterExecutePlan(plan, data)]

---------------------------------------------------------------------------
(* The local handlers, src/services/localAnalysisService.ts                *)

RECURSIVE DropChars(_, _)
DropChars(s, chars) ==
  IF s = <<>> THEN <<>>
  ELSE IF Head(s) \in chars THEN DropChars(Tail(s), chars)
       ELSE <<Head(s)>> \o DropChars(Tail(s), chars)

RECURSIVE TrimStart(_)
TrimStart(s) == IF s # <<>> /\ Head(s) = " " THEN TrimStart(Tail(s)) ELSE s

RECURSIVE TrimEnd(_)
TrimEnd(s) ==
  IF s # <<>> /\ s[Len(s)] = " " THEN TrimEnd(SubSeq(s, 1, Len(s) - 1)) ELSE s

\* String.prototype.trim
Trim(s) == TrimEnd(TrimStart(s))

\* The three characters of the class the handlers strip from a column
\* name: "sq" stands for the single quote, "dq" for the double quote and
\* "bq" for the backquote.
QuoteChars == {"sq", "dq", "bq"}

\* column.replace(/[...]/g, "").trim() with that class, lines 5, 24, 66, 67
CleanColumn(column) == Trim(DropChars(column, QuoteChars))

\* data.headers.includes(name)
HasHeader(data, name) == \E i \in DOMAIN data.headers : data.headers[i] = name

ColumnNotFound(names) ==
  <<[type |-> "markdown", data |-> [kind |-> "columnNotFound", columns |-> names]]>>

\* A variant of HandleUniqueCount without the filter of line 10: the empty
\* cell counts as a value.
HandleUniqueCountOfAll(column, data) ==
  LET cleanColumn == CleanColumn(column)
      uniqueValues == {Get(data.rows[i], cleanColumn) : i \in DOMAIN data.rows}
  IN  IF ~HasHeader(data, cleanColumn) THEN ColumnNotFound(<<cleanColumn>>)
      ELSE <<[type |-> "card",
              data |-> [kind |-> "uniqueCount", column |-> cleanColumn,
                        value |-> Cardinality(uniqueValues)]]>>

\* handleUniqueCount, lines 3-21.  The column is a header, so every row
\* holds a string for it; the empty one is the only value the filter of line 10 drops.
HandleUniqueCount(column, data) ==
  LET cleanColumn == CleanColumn(column)
      uniqueValues == {v \in {Get(data.rows[i], cleanColumn) : i \in DOMAIN data.rows} :
                         v.t # "undefined" /\ v # Str(<<>>)}
  IN  IF ~HasHeader(data, cleanColumn) THEN ColumnNotFound(<<cleanColumn>>)
      ELSE <<[type |-> "card",
              data |-> [kind |-> "uniqueCount", column |-> cleanColumn,
                        value |-> Cardinality(uniqueValues)]]>>

NotAvailable == <<"N", "/", "A">>

\* A value of the `counts` record of handleDistribution: a number n, or,
\* once a function inherited from Object.prototype was read and "+ 1"
\* concatenated, the text "function Object() { [native code] }" followed by
\* n characters "1".
Number(n) == [isNumber |-> TRUE, n |-> n]

FunctionText(n) == [isNumber |-> FALSE, n |-> n]

KeyIndex(counts, key) ==
  IF \E i \in DOMAIN counts : counts[i].key = key
  THEN CHOOSE i \in DOMAIN counts : counts[i].key = key
  ELSE 0

\* Line 33: counts[value] = (counts[value] || 0) + 1.  Here counts is the
\* sequence of own properties in insertion order (no key of the model is an
\* array index, so that is the order of Object.entries).
Increment(counts, value) ==
  LET i == KeyIndex(counts, value)
  IN  IF i # 0
      THEN [counts EXCEPT ![i].val = [@ EXCEPT !.n = @ + 1]]
      ELSE IF value \in ObjectPrototypeKeys
           THEN Append(counts, [key |-> value, val |-> FunctionText(1)])
           ELSE Append(counts, [key |-> value, val |-> Number(1)])

\* Lines 30-34
RECURSIVE CountValues(_, _, _)
CountValues(rows, cleanColumn, counts) ==
  IF rows = <<>> THEN counts
  ELSE LET value == IF Truthy(Get(Head(rows), cleanColumn))
                    THEN Get(Head(rows), cleanColumn).s
                    ELSE NotAvailable
       IN  CountValues(Tail(rows), cleanColumn, Increment(counts, value))

\* Insertion of one entry into a list sorted by count, largest first, after
\* the entries of equal count (Array.prototype.sort is stable).
RECURSIVE InsertByCount(_, _)
InsertByCount(sorted, e) ==
  IF sorted = <<>> THEN <<e>>
  ELSE IF Head(sorted).val.n >= e.val.n
       THEN <<Head(sorted)>> \o InsertByCount(Tail(sorted), e)
       ELSE <<e>> \o sorted

RECURSIVE StableSortByCount(_, _)
StableSortByCount(entries, sorted) ==
  IF entries = <<>> THEN sorted
  ELSE StableSortByCount(Tail(entries), InsertByCount(sorted, Head(entries)))

Arrangements(entries) ==
  {p \in [DOMAIN entries -> DOMAIN entries] :
     \A i, j \in DOMAIN entries : i # j => p[i] # p[j]}

\* Line 36: Object.entries(counts).sort(([, a], [, b]) => b - a).  With
\* numbers only, the one stable descending order.  When a count is a text,
\* b - a is NaN and the comparator is not consistent: the order is then
\* implementation-defined, any arrangement of the entries.
SortedCounts(counts) ==
  IF \A i \in DOMAIN counts : counts[i].val.isNumber
  THEN {StableSortByCount(counts, <<>>)}
  ELSE {[i \in DOMAIN counts |-> counts[p[i]]] : p \in Arrangements(counts)}

\* Line 41: ((count / data.rows.length) * 100).toFixed(2) + "%"; "NaN%" when
\* the count is a text.  The percentage in hundredths of a percent.
Percentage(val, total) ==
  IF val.isNumber THEN [nan |-> FALSE, hundredths |-> ToFixed2(Quot(val.n * 100, total))]
  ELSE [nan |-> TRUE, hundredths |-> 0]

MaxHueSteps == 20

FullCircle == 360

PieMaxValues == 5

Min(a, b) == IF a < b THEN a ELSE b

\* A variant of Hue without the cap of line 46: the steps are as many as
\* the values, however many.
HueUncapped(i, n) == Quot((i * FullCircle) % (FullCircle * n), n)


\* Line 46: the hue (i * 360 / Math.min(n, 20)) % 360 of the i-th entry,
\* i from 0, as an exact quotient.
Hue(i, n) ==
  LET steps == Min(n, MaxHueSteps)
  IN  Quot((i * FullCircle) % (FullCircle * steps), steps)

\* Lines 38-62: the three blocks built from one sorted list.
DistributionBlocks(cleanColumn, sortedCounts, total) ==
  LET n == Len(sortedCounts)
      tableData ==
        [headers |-> <<cleanColumn, <<"C", "o", "u", "n", "t">>,
                       <<"P", "e", "r", "c", "e", "n", "t", "a", "g", "e">>>>,
         rows |-> [i \in 1..n |->
                     [value |-> sortedCounts[i].key,
                      count |-> sortedCounts[i].val,
                      percentage |-> Percentage(sortedCounts[i].val, total)]]]
      chartData ==
        [type |-> IF n > PieMaxValues THEN "bar" ELSE "pie",
         labels |-> [i \in 1..n |-> sortedCounts[i].key],
         data |-> [i \in 1..n |-> sortedCounts[i].val],
         backgroundColor |-> [i \in 1..n |-> Hue(i - 1, n)]]
  IN  <<[type |-> "markdown",
         data |-> [kind |-> "distribution", columns |-> <<cleanColumn>>]],
        [type |-> "chart", data |-> chartData],
        [type |-> "table", data |-> tableData]>>

\* handleDistribution, lines 23-63: the block lists it can return.
HandleDistribution(column, data) ==
  LET cleanColumn == CleanColumn(column)
      counts == CountValues(data.rows, cleanColumn, <<>>)
  IN  IF ~HasHeader(data, cleanColumn) THEN {ColumnNotFound(<<cleanColumn>>)}
      ELSE {DistributionBlocks(cleanColumn, sorted, Len(data.rows)) :
              sorted \in SortedCounts(counts)}

\* A variant of ContainedCount that compares the cells in lower case, as
\* executePlan compares its cells.
ContainedCountIgnoringCase(rows, cleanCol1, cleanCol2) ==
  Cardinality({i \in DOMAIN rows :
                 LET val1 == ToLowerCase(OrEmpty(Get(rows[i], cleanCol1)).s)
                     val2 == ToLowerCase(OrEmpty(Get(rows[i], cleanCol2)).s)
                 IN  val1 # <<>> /\ val2 # <<>> /\ Includes(val1, val2)})

\* Lines 81-88: the rows in which both cells are non-empty and the first
\* contains the second.
ContainedCount(rows, cleanCol1, cleanCol2) ==
  Cardinality({i \in DOMAIN rows :
                 LET val1 == OrEmpty(Get(rows[i], cleanCol1)).s
                     val2 == OrEmpty(Get(rows[i], cleanCol2)).s
                 IN  val1 # <<>> /\ val2 # <<>> /\ Includes(val1, val2)})

\* A variant of handleContainmentPercentage without the test of lines
\* 76-79: with no rows the card shows (0 / 0) * 100, that is NaN%.
ContainmentPercentageUnguarded(col1, col2, data) ==
  LET cleanCol1 == CleanColumn(col1)
      cleanCol2 == CleanColumn(col2)
      missing == SelectSeq(<<cleanCol1, cleanCol2>>, LAMBDA c : ~HasHeader(data, c))
      totalRows == Len(data.rows)
      containedCount == ContainedCount(data.rows, cleanCol1, cleanCol2)
  IN  IF missing # <<>> THEN ColumnNotFound(missing)
      ELSE IF totalRows = 0
           THEN <<[type |-> "card",
                   data |-> [kind |-> "containment", value |-> <<"N", "a", "N", "%">>]]>>
           ELSE <<[type |-> "card",
                   data |-> [kind |-> "containment",
                             col1 |-> cleanCol1, col2 |-> cleanCol2,
                             hundredths |-> ToFixed2(Quot(containedCount * 100, totalRows)),
                             containedCount |-> containedCount,
                             totalRows |-> totalRows]]>>

\* handleContainmentPercentage, lines 65-100
HandleContainmentPercentage(col1, col2, data) ==
  LET cleanCol1 == CleanColumn(col1)
      cleanCol2 == CleanColumn(col2)
      missing == SelectSeq(<<cleanCol1, cleanCol2>>, LAMBDA c : ~HasHeader(data, c))
      totalRows == Len(data.rows)
      containedCount == ContainedCount(data.rows, cleanCol1, cleanCol2)
  IN  IF missing # <<>> THEN ColumnNotFound(missing)
      ELSE IF totalRows = 0
           THEN <<[type |-> "card",
                   data |-> [kind |-> "noData", value |-> <<"0", "%">>]]>>
           ELSE <<[type |-> "card",
                   data |-> [kind |-> "containment",
                             col1 |-> cleanCol1, col2 |-> cleanCol2,
                             hundredths |-> ToFixed2(Quot(containedCount * 100, totalRows)),
                             containedCount |-> containedCount,
                             totalRows |-> totalRows]]>>

\* A variant of DataAfterLocalAnalysis: the default of line 32 written
\* back to the row (row[c] = row[c] || N/A) for every column.
DataWithDefaultsWritten(data) ==
  [data EXCEPT !.rows =
     [i \in DOMAIN data.rows |->
        [c \in DOMAIN data.rows[i] |->
           IF data.rows[i][c] = <<>> THEN NotAvailable ELSE data.rows[i][c]]]]

\* The handlers read data and build new arrays and objects only: this is
\* the dataset as a handler leaves it.
DataAfterLocalAnalysis(data) == data

---------------------------------------------------------------------------
(* tryLocalAnalysis, src/services/localAnalysisService.ts lines 102-146.   *)
(* A prompt is a sequence of tokens, the texts between its single spaces.  *)
(* A character of Chinese is written as one element named by its pinyin.   *)

\* The characters \w of the patterns matches, in the alphabet of the model.
WordChars ==
  {"a", "b", "c", "d", "e", "f", "g", "h", "i", "j", "k", "l", "m", "n", "o", "p",
   "q", "r", "s", "t", "u", "v", "w", "x", "y", "z", "_",
   "0", "1", "2", "3", "4", "5", "6", "7", "8", "9"}
  \cup DOMAIN LowerTable

\* The quotes the patterns allow around a column name (no backquote).
PatternQuotes == {"sq", "dq"}

RECURSIVE WordPrefix(_)
WordPrefix(t) ==
  IF t # <<>> /\ Head(t) \in WordChars THEN <<Head(t)>> \o WordPrefix(Tail(t)) ELSE <<>>

RECURSIVE WordSuffix(_)
WordSuffix(t) ==
  IF t # <<>> /\ t[Len(t)] \in WordChars
  THEN WordSuffix(SubSeq(t, 1, Len(t) - 1)) \o <<t[Len(t)]>>
  ELSE <<>>

StartsWith(t, word) == Len(word) <= Len(t) /\ SubSeq(t, 1, Len(word)) = word

EndsWith(t, word) ==
  Len(word) <= Len(t) /\ SubSeq(t, Len(t) - Len(word) + 1, Len(t)) = word

AfterQuote(t) == IF t # <<>> /\ Head(t) \in PatternQuotes THEN Tail(t) ELSE t

BeforeQuote(t) ==
  IF t # <<>> /\ t[Len(t)] \in PatternQuotes THEN SubSeq(t, 1, Len(t) - 1) ELSE t

\* The group [quote]?([\w_]+)[quote]? on one token.  At the start of a
\* pattern the match may begin inside the token ("first"); at its end it
\* may stop inside the token ("last"); between two spaces it is the whole
\* token ("inner").
Capture(place, t) ==
  LET body == AfterQuote(t)
      word == WordPrefix(body)
      left == SubSeq(body, Len(word) + 1, Len(body))
  IN  CASE place = "first" ->
             [ok |-> WordSuffix(BeforeQuote(t)) # <<>>, text |-> WordSuffix(BeforeQuote(t))]
        [] place = "last" -> [ok |-> word # <<>>, text |-> word]
        [] OTHER ->
             [ok |-> word # <<>> /\ (left = <<>> \/ (Len(left) = 1 /\ left[1] \in PatternQuotes)),
              text |-> word]

\* The j-th of the n tokens of a keyword against a token of the prompt: the
\* patterns are not anchored, so the first keyword of a pattern may end a
\* longer token and the last one may begin a longer token.
TokenMatches(place, j, n, t, word) ==
  IF place = "first" /\ j = 1 THEN EndsWith(t, word)
  ELSE IF place = "last" /\ j = n THEN StartsWith(t, word)
  ELSE t = word

Words(place, alts) == [kind |-> "words", place |-> place, alts |-> alts]

Optional(alts) == [kind |-> "optional", place |-> "inner", alts |-> alts]

Column(place) == [kind |-> "capture", place |-> place, alts |-> {}]

\* The capture groups of every match of the elements elems that begins at
\* token pos.
RECURSIVE MatchFrom(_, _, _)
MatchFrom(elems, tokens, pos) ==
  IF elems = <<>> THEN {<<>>}
  ELSE LET e == Head(elems)
           Rest(at) == MatchFrom(Tail(elems), tokens, at)
           Fits(alt) ==
             /\ pos + Len(alt) - 1 <= Len(tokens)
             /\ \A j \in DOMAIN alt :
                  TokenMatches(e.place, j, Len(alt), tokens[pos + j - 1], alt[j])
           viaAlts == UNION {Rest(pos + Len(alt)) : alt \in {a \in e.alts : Fits(a)}}
       IN  CASE e.kind = "words" -> viaAlts
             [] e.kind = "optional" -> viaAlts \cup Rest(pos)
             [] OTHER ->
                  IF pos <= Len(tokens) /\ Capture(e.place, tokens[pos]).ok
                  THEN {<<Capture(e.place, tokens[pos]).text>> \o a : a \in Rest(pos + 1)}
                  ELSE {}

KwWhat == <<"w", "h", "a", "t">>

KwIs == <<"i", "s">>

KwCalculate == <<"c", "a", "l", "c", "u", "l", "a", "t", "e">>

KwFind == <<"f", "i", "n", "d">>

KwThe == <<"t", "h", "e">>

KwPercentage == <<"p", "e", "r", "c", "e", "n", "t", "a", "g", "e">>

KwOf == <<"o", "f">>

KwThat == <<"t", "h", "a", "t">>

KwContains == <<"c", "o", "n", "t", "a", "i", "n", "s">>

KwContaining == <<"c", "o", "n", "t", "a", "i", "n", "i", "n", "g">>

KwCount == <<"c", "o", "u", "n", "t">>

KwNumber == <<"n", "u", "m", "b", "e", "r">>

KwUnique == <<"u", "n", "i", "q", "u", "e">>

KwDistinct == <<"d", "i", "s", "t", "i", "n", "c", "t">>

KwShow == <<"s", "h", "o", "w">>

KwGet == <<"g", "e", "t">>

KwCreate == <<"c", "r", "e", "a", "t", "e">>

KwGenerate == <<"g", "e", "n", "e", "r", "a", "t", "e">>

KwDistribution == <<"d", "i", "s", "t", "r", "i", "b", "u", "t", "i", "o", "n">>

KwBreakdown == <<"b", "r", "e", "a", "k", "d", "o", "w", "n">>

KwSummary == <<"s", "u", "m", "m", "a", "r", "y">>

ZhContainsRatio == <<"li3", "you", "duo", "shao", "bi", "li4", "bao", "han", "le">>

ZhRatio == <<"de", "bi", "li4">>

ZhCount == <<"tong", "ji">>

ZhNumberOf == <<"de", "shu", "liang">>

ZhNumber == <<"shu", "liang">>

ZhDistribution == <<"fen", "bu">>

ZhDistributionOf == <<"de", "fen", "bu">>

\* PATTERNS, lines 103-131, in their order.
PATTERNS ==
  <<[elems |-> <<Words("first", {<<KwWhat, KwIs>>, <<KwCalculate>>, <<KwFind>>}),
                 Optional({<<KwThe>>}),
                 Words("inner", {<<KwPercentage, KwOf>>}),
                 Column("inner"),
                 Words("inner", {<<KwThat, KwContains>>, <<KwContaining>>, <<ZhContainsRatio>>}),
                 Column("last")>>,
     handler |-> "containment"],
    [elems |-> <<Column("first"),
                 Words("inner", {<<ZhContainsRatio>>, <<KwContaining>>, <<KwContains>>}),
                 Column("inner"),
                 Words("last", {<<ZhRatio>>, <<KwPercentage>>})>>,
     handler |-> "containment"],
    [elems |-> <<Words("first", {<<KwCount>>, <<KwNumber, KwOf>>, <<ZhCount>>}),
                 Words("inner", {<<KwUnique>>, <<KwDistinct>>}),
                 Column("last")>>,
     handler |-> "uniqueCount"],
    [elems |-> <<Words("first", {<<KwUnique>>, <<KwDistinct>>}),
                 Column("inner"),
                 Words("last", {<<KwOf>>, <<ZhNumberOf>>, <<ZhNumber>>})>>,
     handler |-> "uniqueCount"],
    [elems |-> <<Words("first", {<<KwShow>>, <<KwGet>>, <<KwCalculate>>, <<KwFind>>,
                                 <<KwCreate>>, <<KwGenerate>>}),
                 Optional({<<KwThe>>}),
                 Words("inner", {<<KwDistribution, KwOf>>, <<KwBreakdown, KwOf>>,
                                 <<KwSummary, KwOf>>, <<ZhDistribution>>}),
                 Column("last")>>,
     handler |-> "distribution"],
    [elems |-> <<Column("first"),
                 Words("last", {<<ZhDistributionOf>>, <<KwDistribution>>})>>,
     handler |-> "distribution"]>>

\* What tryLocalAnalysis returns when no pattern matches: null.
NoMatch ==
  [matched |-> FALSE, pattern |-> 0, handler |-> "none", args |-> <<>>, blocks |-> <<>>]

\* cleanPrompt.match(pattern.regex): the starts of the matches of pattern k.
MatchStarts(k, cleanPrompt) ==
  {i \in DOMAIN cleanPrompt : MatchFrom(PATTERNS[k].elems, cleanPrompt, i) # {}}

\* match.slice(1): the capture groups of the leftmost match of pattern k.
MatchArgs(k, cleanPrompt) ==
  LET i == CHOOSE m \in MatchStarts(k, cleanPrompt) :
             \A n \in MatchStarts(k, cleanPrompt) : m <= n
  IN  CHOOSE a \in MatchFrom(PATTERNS[k].elems, cleanPrompt, i) : TRUE

\* pattern.handler(...args, data): the block lists the handler can return.
CallHandler(handler, args, data) ==
  CASE handler = "containment" -> {HandleContainmentPercentage(args[1], args[2], data)}
    [] handler = "uniqueCount" -> {HandleUniqueCount(args[1], data)}
    [] OTHER -> HandleDistribution(args[1], data)

\* A variant of TryLocalAnalysis in which the loop does not stop at the
\* first pattern that matches: the last one that matches answers.
TryLocalAnalysisByLastPattern(prompt, data) ==
  LET cleanPrompt == [i \in DOMAIN prompt |-> ToLowerCase(prompt[i])]
      matching == {k \in DOMAIN PATTERNS : MatchStarts(k, cleanPrompt) # {}}
  IN  IF matching = {} THEN {NoMatch}
      ELSE LET k == CHOOSE m \in matching : \A n \in matching : n <= m
               args == MatchArgs(k, cleanPrompt)
           IN  {[matched |-> TRUE, pattern |-> k, handler |-> PATTERNS[k].handler,
                 args |-> args, blocks |-> blocks] :
                  blocks \in CallHandler(PATTERNS[k].handler, args, data)}

\* tryLocalAnalysis(prompt, data), lines 133-146: what it can return.
TryLocalAnalysis(prompt, data) ==
  LET cleanPrompt == [i \in DOMAIN prompt |-> ToLowerCase(prompt[i])]
      matching == {k \in DOMAIN PATTERNS : MatchStarts(k, cleanPrompt) # {}}
  IN  IF matching = {} THEN {NoMatch}
      ELSE LET k == CHOOSE m \in matching : \A n \in matching : m <= n
               args == MatchArgs(k, cleanPrompt)
           IN  {[matched |-> TRUE, pattern |-> k, handler |-> PATTERNS[k].handler,
                 args |-> args, blocks |-> blocks] :
                  blocks \in CallHandler(PATTERNS[k].handler, args, data)}

---------------------------------------------------------------------------
(* Inputs: the datasets, plans and column names the checks draw from.      *)

Carrier == <<"c", "a", "r", "r", "i", "e", "r">>

\* A column name no dataset of the model has.
NoSuchColumn == <<"z", "o", "n", "e">>

Ups == <<"U", "P", "S">>

UpsLower == <<"u", "p", "s">>

Fedex == <<"F", "E", "D", "E", "X">>

Po1 == <<"P", "O", "1">>

RowOf(carrier, returnPo) == (Carrier :> carrier) @@ (ReturnPo :> returnPo)

\* Rows of a two-column sheet: cells that are empty, a single space, and
\* texts that differ in case only.
ExecRows == {RowOf(Ups, Po1), RowOf(UpsLower, <<>>), RowOf(Fedex, <<" ">>),
             RowOf(<<>>, Po1)}

SeqsUpTo(S, n) == UNION {[1..k -> S] : k \in 0..n}

ExecDatasets ==
  {[headers |-> <<Carrier, ReturnPo>>, rows |-> rows] :
     rows \in SeqsUpTo(ExecRows, MaxRows)}

Filter(column, operator, value) ==
  [column |-> column, operator |-> operator, value |-> value]

\* "starts_with" is an operator the switch of executePlan has no case for.
ExecFilters ==
  {Filter(ReturnPo, o, Undefined) : o \in {"is_empty", "is_not_empty"}}
  \cup {Filter(Carrier, o, Str(UpsLower)) : o \in {"equals", "not_equals"}}
  \cup {Filter(Carrier, "contains", Str(<<"P">>)), Filter(Carrier, "equals", Undefined),
        Filter(Carrier, "starts_with", Str(UpsLower))}
  \cup {Filter(NoSuchColumn, o, Undefined) : o \in {"is_empty", "is_not_empty"}}
  \cup {Filter(NoSuchColumn, "equals", Str(<<>>)), Filter(NoSuchColumn, "equals", Str(UpsLower)),
        Filter(ConstructorName, "is_empty", Undefined)}

Present(items) == [present |-> TRUE, items |-> items]

Absent == [present |-> FALSE, items |-> <<>>]

ExecCalculations ==
  {Absent, Present(<<"count">>), Present(<<"count", "mismatch_rate", "missing_po_rate">>)}

\* An ExecutionPlan (src/types.ts): filters, calculations and
\* data_subset_columns are optional.
Plan(filters, calculations, columns) ==
  [action |-> "filter_and_analyze", filters |-> filters,
   calculations |-> calculations, data_subset_columns |-> columns]

ExecFilterLists ==
  {Absent} \cup {Present(fs) : fs \in SeqsUpTo(ExecFilters, MaxFilters)}

\* Every list of filters with every choice of calculations, and once more
\* with a column subset named.
ExecPlans ==
  {Plan(f, c, Absent) : f \in ExecFilterLists, c \in ExecCalculations}
  \cup {Plan(f, Present(<<"count">>), Present(<<ReturnPo>>)) : f \in ExecFilterLists}

\* A few plans for runs of several queries: no filter, a filter on each
\* column, a filter on a column the dataset lacks, two filters.
CorePlans ==
  {Plan(Absent, Present(<<"count">>), Absent),
   Plan(Present(<<Filter(ReturnPo, "is_empty", Undefined)>>),
        Present(<<"count", "mismatch_rate", "missing_po_rate">>), Absent),
   Plan(Present(<<Filter(Carrier, "equals", Str(UpsLower))>>), Present(<<"count">>),
        Present(<<ReturnPo>>)),
   Plan(Present(<<Filter(NoSuchColumn, "is_not_empty", Undefined)>>),
        Present(<<"count">>), Absent),
   Plan(Present(<<Filter(ConstructorName, "is_empty", Undefined)>>), Absent, Absent),
   Plan(Present(<<Filter(Carrier, "equals", Str(UpsLower)),
                  Filter(ReturnPo, "is_not_empty", Undefined)>>),
        Present(<<"count">>), Absent)}

CoreColumns == {Carrier, ReturnPo}

UpsMixed == <<"U", "p", "s">>

\* Filters for the operators: the three comparisons with values that
\* differ in case only, and operators the switch has no case for
\* ("EQUALS" among them: the cases are matched exactly), on a column of the
\* dataset, on a column it lacks and on a name of Object.prototype.
OperatorFilters ==
  {Filter(Carrier, o, Str(v)) : o \in {"equals", "not_equals"}, v \in {Ups, UpsMixed}}
  \cup {Filter(Carrier, "contains", Str(v)) : v \in {<<"P">>, <<"p">>}}
  \cup {Filter(Carrier, "starts_with", Str(UpsLower)), Filter(Carrier, "EQUALS", Str(Fedex)),
        Filter(NoSuchColumn, "matches", Str(UpsLower)),
        Filter(ConstructorName, "starts_with", Undefined),
        Filter(ReturnPo, "is_not_empty", Undefined)}

OperatorPlans ==
  {Plan(Present(fs), Present(<<"count", "missing_po_rate">>), Absent) :
     fs \in SeqsUpTo(OperatorFilters, MaxFilters)}

MaxRateRows == 3

RateRowOf(trackingNo, vendTrackNo, returnPo) ==
  (TrackingNo :> trackingNo) @@ (VendTrackNo :> vendTrackNo) @@ (ReturnPo :> returnPo)

\* Rows for the two rates: equal tracking numbers, different ones, ones
\* that differ in case only, an empty vend_track_no; return_po filled,
\* empty and a single space.
RateRows ==
  {RateRowOf(<<"A">>, <<"A">>, Po1), RateRowOf(<<"B">>, <<"C">>, <<>>),
   RateRowOf(<<"D">>, <<>>, Po1), RateRowOf(<<"A">>, <<"a">>, <<" ">>)}

\* Rows of a sheet that has no return_po column.
RateRowsWithoutPo ==
  {(TrackingNo :> <<"A">>) @@ (VendTrackNo :> <<"A">>),
   (TrackingNo :> <<"B">>) @@ (VendTrackNo :> <<"C">>)}

RateDatasets ==
  {[headers |-> <<TrackingNo, VendTrackNo, ReturnPo>>, rows |-> rows] :
     rows \in SeqsUpTo(RateRows, MaxRateRows)}
  \cup {[headers |-> <<TrackingNo, VendTrackNo>>, rows |-> rows] :
          rows \in SeqsUpTo(RateRowsWithoutPo, MaxRateRows)}

RatePlans ==
  {Plan(f, Present(<<"mismatch_rate", "missing_po_rate">>), Absent) :
     f \in {Absent,
            Present(<<Filter(VendTrackNo, "is_not_empty", Undefined)>>),
            Present(<<Filter(ReturnPo, "is_empty", Undefined)>>),
            Present(<<Filter(TrackingNo, "not_equals", Str(<<"a">>))>>)}}

LocalRowOf(trackingNo, vendTrackNo) ==
  (TrackingNo :> trackingNo) @@ (VendTrackNo :> vendTrackNo)

\* Rows for the local handlers: a cell that contains the other, one that
\* differs from it in case only, empty cells, the text N/A, and a cell whose
\* text is the name of a property of Object.prototype.
LocalRows ==
  {LocalRowOf(<<"A", "B">>, <<"B">>), LocalRowOf(<<"A", "B">>, <<"b">>),
   LocalRowOf(<<"A", "B">>, <<>>), LocalRowOf(<<>>, <<>>),
   LocalRowOf(NotAvailable, ConstructorName), LocalRowOf(<<"B">>, <<"A", "B">>)}

LocalDatasets ==
  {[headers |-> <<TrackingNo, VendTrackNo>>, rows |-> rows] :
     rows \in SeqsUpTo(LocalRows, MaxRows)}

\* Column arguments: the two headers, one of them as a quoted capture with
\* a trailing space, and a name the dataset lacks.
LocalColumns ==
  {TrackingNo, VendTrackNo, <<"dq">> \o VendTrackNo \o <<"dq", " ">>, NoSuchColumn}

\* Two sheets for the chat.
ChatDatasets ==
  {[headers |-> <<Carrier, ReturnPo>>, rows |-> <<RowOf(Ups, Po1), RowOf(UpsLower, <<>>)>>],
   [headers |-> <<TrackingNo, VendTrackNo>>,
    rows |-> <<LocalRowOf(<<"A", "B">>, <<"B">>), LocalRowOf(<<"A", "B">>, <<>>)>>]}

ChatKnowledge ==
  {<<>>, <<[name |-> <<"k">>, content |-> <<"r", "u", "l", "e">>]>>}

\* Three of the suggestions of App (lines 454-459), as written there.
ShowDistributionOfCarrier ==
    <<<<"S", "h", "o", "w">>,
     <<"d", "i", "s", "t", "r", "i", "b", "u", "t", "i", "o", "n">>,
     <<"o", "f">>,
     <<"c", "a", "r", "r", "i", "e", "r", ".">>>>

CountUniqueValuesOfApiSource ==
    <<<<"C", "o", "u", "n", "t">>,
     <<"u", "n", "i", "q", "u", "e">>,
     <<"v", "a", "l", "u", "e", "s">>,
     <<"o", "f">>,
     <<"a", "p", "i", "_", "s", "o", "u", "r", "c", "e", ".">>>>

FindTrackingNumberMismatches ==
    <<<<"F", "i", "n", "d">>,
     <<"t", "r", "a", "c", "k", "i", "n", "g">>,
     <<"n", "u", "m", "b", "e", "r">>,
     <<"m", "i", "s", "m", "a", "t", "c", "h", "e", "s", ".">>>>

UniqueCountOfCarrier ==
    <<<<"u", "n", "i", "q", "u", "e">>,
     <<"c", "o", "u", "n", "t">>,
     <<"o", "f">>,
     <<"c", "a", "r", "r", "i", "e", "r">>>>

\* A question two patterns match: the first and the last of PATTERNS.
ContainmentAndDistribution ==
    <<<<"c", "a", "l", "c", "u", "l", "a", "t", "e">>,
     <<"p", "e", "r", "c", "e", "n", "t", "a", "g", "e">>,
     <<"o", "f">>,
     <<"t", "r", "a", "c", "k", "i", "n", "g", "_", "n", "o">>,
     <<"c", "o", "n", "t", "a", "i", "n", "i", "n", "g">>,
     <<"v", "e", "n", "d", "_", "t", "r", "a", "c", "k", "_", "n", "o">>,
     <<"d", "i", "s", "t", "r", "i", "b", "u", "t", "i", "o", "n">>>>

\* A question for the second pattern, with a column no sheet has.
ContainsZonePercentage ==
    <<<<"t", "r", "a", "c", "k", "i", "n", "g", "_", "n", "o">>,
     <<"c", "o", "n", "t", "a", "i", "n", "s">>,
     <<"z", "o", "n", "e">>,
     <<"p", "e", "r", "c", "e", "n", "t", "a", "g", "e">>>>

\* A question the third and the last pattern match.
CountUniqueTrackingNoDistribution ==
    <<<<"c", "o", "u", "n", "t">>,
     <<"u", "n", "i", "q", "u", "e">>,
     <<"t", "r", "a", "c", "k", "i", "n", "g", "_", "n", "o">>,
     <<"d", "i", "s", "t", "r", "i", "b", "u", "t", "i", "o", "n">>>>

ChatPrompts ==
  {ShowDistributionOfCarrier, CountUniqueValuesOfApiSource, FindTrackingNumberMismatches,
   UniqueCountOfCarrier, ContainmentAndDistribution,
   ContainsZonePercentage, CountUniqueTrackingNoDistribution, <<>>}

\* What generateInsights resolves with: the blocks of the analyst, or the
\* error block of its catch.
AnalystResponses ==
  {<<[type |-> "markdown", data |-> [kind |-> "analysis"]]>>,
   <<[type |-> "markdown", data |-> [kind |-> "analysisError"]]>>}

---------------------------------------------------------------------------
(* generateInsights, src/services/geminiService.ts                         *)
(*                                                                         *)
(* The two calls to the external model are its inputs: what the planner    *)
(* call gives (it fails, or its text is no JSON, or is the JSON null, or a *)
(* plan) and what the analyst call gives (it fails, or a text).  A JSON    *)
(* value is a record [json, items]: json is "array", "object" or "null",   *)
(* and items are the elements of an array.                                 *)

JsonArray(items) == [json |-> "array", items |-> items]

JsonObject == [json |-> "object", items |-> <<>>]

JsonNull == [json |-> "null", items |-> <<>>]

\* csvToText, lines 173-181: the header line and one line per row, the
\* cells of the headers in order (a header is an own property of every
\* row, and join writes undefined as the empty text); a fixed sentence when
\* there is no row.
CsvToText(data) ==
  IF data.rows = <<>> THEN [kind |-> "noData", header |-> <<>>, lines |-> <<>>]
  ELSE [kind |-> "csv", header |-> data.headers,
        lines |-> [i \in DOMAIN data.rows |->
                     [j \in DOMAIN data.headers |->
                        LET v == Get(data.rows[i], data.headers[j])
                        IN  IF v.t = "string" THEN v.s ELSE <<>>]]]

\* Lines 278-281: one line per metric that is defined, the count as it is
\* and the rates by toFixed(2).
MetricsSummary(metrics) ==
  LET shown == SelectSeq(<<"count", "mismatch_rate", "missing_po_rate">>,
                         LAMBDA c : c \in DOMAIN metrics)
  IN  [i \in DOMAIN shown |->
         IF shown[i] = "count"
         THEN [metric |-> shown[i], fixed |-> FALSE, value |-> metrics[shown[i]]]
         ELSE [metric |-> shown[i], fixed |-> TRUE,
               value |-> Num(ToFixed2(metrics[shown[i]]))]]

\* Lines 337-353: what the catch resolves with, one markdown block; the
\* developer note is added when the message of the error mentions JSON.
ErrorResponse(mentionsJson) ==
  JsonArray(<<[type |-> "markdown",
               data |-> [kind |-> "analysisError", developerNote |-> mentionsJson,
                         shape |-> "markdown"]]>>)

\* Lines 333-334: the text without a leading ```json and a trailing ```,
\* parsed.  A fence without the word json stays and the parse throws.
ParseResponse(answered) ==
  IF answered.wrapping = "plainFence" \/ answered.malformed
  THEN [threw |-> TRUE, value |-> JsonNull]
  ELSE [threw |-> FALSE, value |-> answered.value]

NoInput ==
  [knowledgeContent |-> <<>>,
   dataAsText |-> [kind |-> "none", header |-> <<>>, lines |-> <<>>],
   request |-> [question |-> <<>>, metricsSummary |-> Absent]]

\* Lines 297-309: the prompt of the analyst, made of the knowledge text,
\* the text of the data and the request: the question, after the summary
\* of the metrics when there is one (lines 285-289).
AnalystInput(knowledgeContent, data, prompt, summary) ==
  [knowledgeContent |-> knowledgeContent,
   dataAsText |-> CsvToText(data),
   request |-> [question |-> prompt, metricsSummary |-> summary]]

\* A variant of RunsPlanLocally: the plan is executed whenever it has
\* filters or calculations, whatever its action.
RunsPlanWithContent(plan) == plan.filters.present \/ plan.calculations.present

\* Line 272: the plan is executed locally when its action is
\* filter_and_analyze, and under any other action it is not.
RunsPlanLocally(plan) == plan.action = "filter_and_analyze"

\* Where the body of the try is left: by the return of line 335 with a
\* value, or by a throw; whether executePlan was called, whether the
\* analyst was and with what, and the dataset afterwards.
Left(threw, mentionsJson, value, executed, asked, input, data) ==
  [threw |-> threw, mentionsJson |-> mentionsJson, value |-> value,
   executed |-> executed, asked |-> asked, input |-> input, data |-> data]

\* Lines 311-335: the analyst call and the parse of its text.
AskAndParse(answered, executed, input, data) ==
  IF answered.kind = "failed"
  THEN Left(TRUE, FALSE, JsonNull, executed, TRUE, input, data)
  ELSE IF ParseResponse(answered).threw
  THEN Left(TRUE, TRUE, JsonNull, executed, TRUE, input, data)
  ELSE Left(FALSE, FALSE, ParseResponse(answered).value, executed, TRUE, input, data)

\* The body of the try, lines 264-335, given what the two external calls
\* give.  The planner call throws when it fails and when its text is no
\* JSON (line 255); reading plan.action of null throws (line 272);
\* executePlan may throw (line 275).
TryInsights(fullCsvData, prompt, knowledgeContent, planned, answered) ==
  LET plan == planned.plan
      r == ExecutePlan(plan, fullCsvData)
  IN  CASE planned.kind = "failed" ->
             Left(TRUE, FALSE, JsonNull, FALSE, FALSE, NoInput, fullCsvData)
        [] planned.kind = "malformed" ->
             Left(TRUE, TRUE, JsonNull, FALSE, FALSE, NoInput, fullCsvData)
        [] planned.kind = "null" ->
             Left(TRUE, FALSE, JsonNull, FALSE, FALSE, NoInput, fullCsvData)
        [] OTHER ->
             IF RunsPlanLocally(plan)
             THEN IF r.status # "ok"
                  THEN Left(TRUE, FALSE, JsonNull, TRUE, FALSE, NoInput, r.data)
                  ELSE AskAndParse(answered, TRUE,
                                   AnalystInput(knowledgeContent, r.subset, prompt,
                                                Present(MetricsSummary(r.metrics))),
                                   r.data)
             ELSE AskAndParse(answered, FALSE,
                              AnalystInput(knowledgeContent, fullCsvData, prompt, Absent),
                              fullCsvData)

\* A variant of generateInsights without the catch of line 337: what the
\* body throws rejects the promise.
GenerateInsightsWithoutCatch(fullCsvData, prompt, knowledgeContent, planned, answered) ==
  LET t == TryInsights(fullCsvData, prompt, knowledgeContent, planned, answered)
  IN  [settled |-> IF t.threw THEN "rejected" ELSE "resolved",
       value |-> t.value, executed |-> t.executed, asked |-> t.asked,
       input |-> t.input, data |-> t.data]

\* generateInsights(fullCsvData, prompt, knowledgeContent), lines 262-355:
\* the promise resolves with the value the body returns, or with the error
\* block of the catch when the body throws.
GenerateInsights(fullCsvData, prompt, knowledgeContent, planned, answered) ==
  LET t == TryInsights(fullCsvData, prompt, knowledgeContent, planned, answered)
  IN  [settled |-> "resolved",
       value |-> IF t.threw THEN ErrorResponse(t.mentionsJson) ELSE t.value,
       executed |-> t.executed, asked |-> t.asked,
       input |-> t.input, data |-> t.data]

---------------------------------------------------------------------------

(* The knowledge files of App, src/App.tsx lines 300-310.                  *)

\* handleAddKnowledgeFiles, lines 300-306: the new files whose name no
\* previous file has are appended, in their order.
AddKnowledgeFiles(prevFiles, newFiles) ==
  LET existingFileNames == {prevFiles[i].name : i \in DOMAIN prevFiles}
      uniqueNewFiles == SelectSeq(newFiles, LAMBDA nf : nf.name \notin existingFileNames)
  IN  prevFiles \o uniqueNewFiles

\* handleRemoveKnowledgeFile, lines 308-310
RemoveKnowledgeFile(prevFiles, fileName) ==
  SelectSeq(prevFiles, LAMBDA f : f.name # fileName)

---------------------------------------------------------------------------

(* The state machine.                                                      *)

NoPlan == Plan(Absent, Absent, Absent)

NoSubset == [headers |-> <<>>, rows |-> <<>>]

NoQuery ==
  [op |-> "none", seq |-> 0, plan |-> NoPlan, args |-> <<>>, status |-> "ok",
   metrics |-> NoMetrics, subset |-> NoSubset, blocks |-> <<>>]

\* The message App shows once a file is loaded, lines 343-354.
Welcome ==
  [role |-> "model", content |-> <<[type |-> "markdown", data |-> [kind |-> "loaded"]]>>]

\* The chat once a file is loaded, with no knowledge file.
NoChat ==
  [messages |-> <<Welcome>>, isLoading |-> FALSE, knowledgeFiles |-> <<>>, calls |-> <<>>]

UserMessage(messageText) ==
  [role |-> "user",
   content |-> <<[type |-> "text", data |-> [kind |-> "question", text |-> messageText]]>>]

ModelMessage(blocks) == [role |-> "model", content |-> blocks]

\* Lines 420-422: one section per knowledge file, its name then its content.
KnowledgeContent(knowledgeFiles) ==
  [i \in DOMAIN knowledgeFiles |->
     [title |-> knowledgeFiles[i].name, body |-> knowledgeFiles[i].content]]

\* A variant of AnswerLocally without the return of line 414: the blocks
\* are appended and generateInsights is called all the same.
AnswerLocallyAndAsk(c, messageText, blocks, data) ==
  [c EXCEPT !.messages = @ \o <<UserMessage(messageText), ModelMessage(blocks)>>,
            !.isLoading = TRUE,
            !.calls = Append(@, [csvData |-> data, prompt |-> messageText,
                                 knowledgeContent |-> KnowledgeContent(c.knowledgeFiles)])]

\* Lines 399-401 and 406-415 of sendMessage: the question and the blocks
\* of the local analysis are appended, and sendMessage returns.
AnswerLocally(c, messageText, blocks, data) ==
  [c EXCEPT !.messages = @ \o <<UserMessage(messageText), ModelMessage(blocks)>>,
            !.isLoading = FALSE]

\* Lines 399-401 and 419-424: the question is appended and generateInsights
\* is called with the dataset, the question and the knowledge text.
AskAnalyst(c, messageText, data) ==
  [c EXCEPT !.messages = Append(@, UserMessage(messageText)),
            !.isLoading = TRUE,
            !.calls = Append(@, [csvData |-> data, prompt |-> messageText,
                                 knowledgeContent |-> KnowledgeContent(c.knowledgeFiles)])]

InitWith(datasets) ==
  /\ csvData \in datasets
  /\ last = NoQuery
  /\ first = NoQuery
  /\ queries = 0
  /\ chat = NoChat

\* One call executePlan(plan, csvData).
RunExecutePlan(plan) ==
  LET r == ExecutePlan(plan, csvData)
  IN  /\ queries < MaxQueries
      /\ csvData' = r.data
      /\ last' = [op |-> "executePlan", seq |-> queries + 1, plan |-> plan,
                  args |-> <<>>, status |-> r.status, metrics |-> r.metrics,
                  subset |-> r.subset, blocks |-> <<>>]
      /\ queries' = queries + 1
      /\ UNCHANGED chat

\* The same, remembering the first such call.
DoExecutePlan(plan) ==
  /\ RunExecutePlan(plan)
  /\ first' = IF first.op = "none" THEN last' ELSE first

LocalQuery(op, args, blocks) ==
  [op |-> op, seq |-> queries + 1, plan |-> NoPlan, args |-> args, status |-> "ok",
   metrics |-> NoMetrics, subset |-> NoSubset, blocks |-> blocks]

DoUniqueCount(column) ==
  /\ queries < MaxQueries
  /\ csvData' = DataAfterLocalAnalysis(csvData)
  /\ last' = LocalQuery("uniqueCount", <<column>>, HandleUniqueCount(column, csvData))
  /\ queries' = queries + 1
  /\ UNCHANGED <<first, chat>>

DoDistribution(column) ==
  /\ queries < MaxQueries
  /\ csvData' = DataAfterLocalAnalysis(csvData)
  /\ \E blocks \in HandleDistribution(column, csvData) :
       last' = LocalQuery("distribution", <<column>>, blocks)
  /\ queries' = queries + 1
  /\ UNCHANGED <<first, chat>>

DoContainmentPercentage(col1, col2) ==
  /\ queries < MaxQueries
  /\ csvData' = DataAfterLocalAnalysis(csvData)
  /\ last' = LocalQuery("containment", <<col1, col2>>,
                        HandleContainmentPercentage(col1, col2, csvData))
  /\ queries' = queries + 1
  /\ UNCHANGED <<first, chat>>

\* sendMessage(messageText), lines 391-424, up to the await.
SendMessage(messageText) ==
  /\ queries < MaxQueries
  /\ messageText # <<>>
  /\ ~chat.isLoading
  /\ \E r \in TryLocalAnalysis(messageText, csvData) :
       IF r.matched
       THEN /\ chat' = AnswerLocally(chat, messageText, r.blocks, csvData)
            /\ last' = LocalQuery(r.handler, r.args, r.blocks)
       ELSE /\ chat' = AskAnalyst(chat, messageText, csvData)
            /\ last' = [NoQuery EXCEPT !.op = "generateInsights", !.seq = queries + 1]
  /\ csvData' = DataAfterLocalAnalysis(csvData)
  /\ queries' = queries + 1
  /\ UNCHANGED first

\* Lines 424-430 and 441-443: generateInsights resolves with blocks, which
\* are appended.  (It catches what it throws, geminiService.ts lines
\* 337-354, and resolves with an error block then.)
AnalystAnswers(blocks) ==
  /\ chat.isLoading
  /\ chat' = [chat EXCEPT !.messages = Append(@, ModelMessage(blocks)),
                          !.isLoading = FALSE]
  /\ UNCHANGED <<csvData, last, first, queries>>

(* Runs of up to MaxQueries queries of any kind on one dataset.            *)

Init == InitWith(ExecDatasets)

Next ==
  \/ \E plan \in CorePlans : DoExecutePlan(plan)
  \/ \E column \in CoreColumns : DoUniqueCount(column)
  \/ \E column \in CoreColumns : DoDistribution(column)
  \/ \E col1, col2 \in CoreColumns : DoContainmentPercentage(col1, col2)

Spec == Init /\ [][Next]_vars

(* The plan executor as a function: one call, on each dataset of           *)
(* ExecDatasets with each plan of ExecPlans.                               *)

InitExec == InitWith(ExecDatasets)

NextExec ==
  /\ queries = 0
  /\ \E plan \in ExecPlans : RunExecutePlan(plan)
  /\ UNCHANGED first

SpecExec == InitExec /\ [][NextExec]_vars

(* The operators of the filters: one call, on each dataset of              *)
(* ExecDatasets with each plan of OperatorPlans.                           *)

InitOperators == InitWith(ExecDatasets)

NextOperators ==
  /\ queries = 0
  /\ \E plan \in OperatorPlans : RunExecutePlan(plan)
  /\ UNCHANGED first

SpecOperators == InitOperators /\ [][NextOperators]_vars

(* The two rates: one call, on each dataset of RateDatasets with each      *)
(* plan of RatePlans.                                                      *)

InitRates == InitWith(RateDatasets)

NextRates ==
  /\ queries = 0
  /\ \E plan \in RatePlans : RunExecutePlan(plan)
  /\ UNCHANGED first

SpecRates == InitRates /\ [][NextRates]_vars

(* The chat: up to MaxQueries questions on one dataset.                    *)

InitChat ==
  /\ csvData \in ChatDatasets
  /\ last = NoQuery
  /\ first = NoQuery
  /\ queries = 0
  /\ chat \in {[NoChat EXCEPT !.knowledgeFiles = files] : files \in ChatKnowledge}

NextChat ==
  \/ \E messageText \in ChatPrompts : SendMessage(messageText)
  \/ \E blocks \in AnalystResponses : AnalystAnswers(blocks)

SpecChat == InitChat /\ [][NextChat]_vars

(* The local handlers as functions: one call, on each dataset of           *)
(* LocalDatasets with each column of LocalColumns.                         *)

InitLocal == InitWith(LocalDatasets)

NextLocal ==
  \/ queries = 0 /\ \E column \in LocalColumns : DoUniqueCount(column)
  \/ queries = 0 /\ \E column \in LocalColumns : DoDistribution(column)
  \/ queries = 0 /\ \E col1, col2 \in LocalColumns : DoContainmentPercentage(col1, col2)

SpecLocal == InitLocal /\ [][NextLocal]_vars

---------------------------------------------------------------------------
(* Comparisons without a value: one call of executePlan, the filters       *)
(* either without a value or with the empty text as their value.           *)

UndefinedCapital == <<"U", "n", "d", "e", "f", "i", "n", "e", "d">>

\* Rows whose carrier is a text, empty, and the text Undefined.
AbsentValueRows == {RowOf(Ups, Po1), RowOf(<<>>, Po1), RowOf(UndefinedCapital, <<>>)}

AbsentValueDatasets ==
  {[headers |-> <<Carrier, ReturnPo>>, rows |-> rows] :
     rows \in SeqsUpTo(AbsentValueRows, MaxRows)}

AbsentValueFilters ==
  {Filter(Carrier, o, v) : o \in {"equals", "not_equals", "contains"},
                           v \in {Undefined, Str(<<>>)}}

AbsentValuePlans ==
  {Plan(Present(fs), Present(<<"count">>), Absent) :
     fs \in SeqsUpTo(AbsentValueFilters, MaxFilters)}

InitAbsentValue == InitWith(AbsentValueDatasets)

NextAbsentValue ==
  /\ queries = 0
  /\ \E plan \in AbsentValuePlans : RunExecutePlan(plan)
  /\ UNCHANGED first

SpecAbsentValue == InitAbsentValue /\ [][NextAbsentValue]_vars


(* Questions that name a header as the dataset writes it: one question on  *)
(* a one-column dataset whose header has capital letters or none.          *)

CarrierCapital == <<"C", "a", "r", "r", "i", "e", "r">>

Sku == <<"s", "k", "u">>

SkuCapital == <<"S", "k", "u">>

HeaderNames == {Carrier, CarrierCapital, Sku, SkuCapital}

HeaderDatasets ==
  {[headers |-> <<h>>, rows |-> [i \in DOMAIN cells |-> (h :> cells[i])]] :
     h \in HeaderNames, cells \in SeqsUpTo({Ups, Fedex}, MaxRows)}

ShowDistributionOf(h) ==
  <<<<"s", "h", "o", "w">>,
    <<"d", "i", "s", "t", "r", "i", "b", "u", "t", "i", "o", "n">>,
    <<"o", "f">>, h>>

CountUnique(h) == <<<<"c", "o", "u", "n", "t">>, <<"u", "n", "i", "q", "u", "e">>, h>>

HeaderPrompts ==
  {ShowDistributionOf(h) : h \in HeaderNames} \cup {CountUnique(h) : h \in HeaderNames}

InitHeaders == InitWith(HeaderDatasets)

NextHeaders ==
  /\ queries = 0
  /\ \E messageText \in HeaderPrompts : SendMessage(messageText)

SpecHeaders == InitHeaders /\ [][NextHeaders]_vars


(* One question and the call of generateInsights it leads to, for every    *)
(* outcome of the two external calls.                                      *)

PlanWithAction(action, plan) == [plan EXCEPT !.action = action]

\* Plans without filters and calculations, with a filter and two
\* calculations, and with a filter on a name of Object.prototype, each
\* under the two actions of ExecutionPlan and under one it does not list.
InsightPlans ==
  {PlanWithAction(a, p) :
     a \in {"filter_and_analyze", "direct_analysis", "summarize"},
     p \in {Plan(Absent, Absent, Absent),
            Plan(Present(<<Filter(Carrier, "equals", Str(UpsLower))>>),
                 Present(<<"count", "missing_po_rate">>), Absent),
            Plan(Present(<<Filter(ConstructorName, "is_empty", Undefined)>>),
                 Present(<<"count">>), Absent)}}

Planned(kind, plan) == [kind |-> kind, plan |-> plan]

\* What getExecutionPlan (lines 231-257) can give: the call fails, its
\* text is no JSON, it is the JSON null, or it is a plan.
PlannerOutcomes ==
  {Planned("failed", NoPlan), Planned("malformed", NoPlan), Planned("null", NoPlan)}
  \cup {Planned("plan", p) : p \in InsightPlans}

AnalystBlock(type, shape) == [type |-> type, data |-> [kind |-> "analysis", shape |-> shape]]

\* JSON values the analyst may answer with: blocks as asked for, a block
\* of a type that is none of the four, a card whose data is a text, an
\* object that is no array, and null.
AnalystValues ==
  {JsonArray(<<AnalystBlock("markdown", "markdown"), AnalystBlock("card", "card")>>),
   JsonArray(<<AnalystBlock("image", "markdown")>>),
   JsonArray(<<AnalystBlock("card", "markdown")>>),
   JsonObject, JsonNull}

Answered(kind, wrapping, malformed, value) ==
  [kind |-> kind, wrapping |-> wrapping, malformed |-> malformed, value |-> value]

\* What the analyst call can give: it fails, or a text: JSON, bare or in a
\* fence with or without the word json, or no JSON at all.
AnalystOutcomes ==
  {Answered("failed", "none", FALSE, JsonNull), Answered("text", "none", TRUE, JsonNull)}
  \cup {Answered("text", "none", FALSE, v) : v \in AnalystValues}
  \cup {Answered("text", w, FALSE,
                 JsonArray(<<AnalystBlock("markdown", "markdown"),
                             AnalystBlock("card", "card")>>)) :
          w \in {"jsonFence", "plainFence"}}

InsightPrompts == {FindTrackingNumberMismatches, ShowDistributionOfCarrier}

\* Lines 431-440 of sendMessage: the content of the message that is
\* appended when the promise of generateInsights rejects.
SendError ==
  JsonArray(<<[type |-> "markdown", data |-> [kind |-> "sendError", shape |-> "markdown"]]>>)

\* Lines 424-443 of sendMessage with generateInsights: the call made last
\* settles; what it resolves with is appended as it is, as the content of
\* a model message, and isLoading is reset.
InsightsResolve(planned, answered) ==
  /\ chat.isLoading
  /\ LET call == chat.calls[Len(chat.calls)]
         r == GenerateInsights(call.csvData, call.prompt, call.knowledgeContent,
                               planned, answered)
     IN  /\ chat' = [chat EXCEPT
                        !.messages = Append(@, ModelMessage(IF r.settled = "resolved"
                                                            THEN r.value
                                                            ELSE SendError)),
                        !.isLoading = FALSE]
         /\ last' = [op |-> "insights", seq |-> queries, call |-> call,
                     planned |-> planned, answered |-> answered, result |-> r]
         /\ csvData' = r.data
  /\ UNCHANGED <<first, queries>>

InitInsights ==
  /\ csvData \in ExecDatasets
  /\ last = NoQuery
  /\ first = NoQuery
  /\ queries = 0
  /\ chat \in {[NoChat EXCEPT !.knowledgeFiles = files] : files \in ChatKnowledge}

NextInsights ==
  \/ queries = 0 /\ \E messageText \in InsightPrompts : SendMessage(messageText)
  \/ \E planned \in PlannerOutcomes, answered \in AnalystOutcomes :
       InsightsResolve(planned, answered)

SpecInsights == InitInsights /\ [][NextInsights]_vars


(* The knowledge base: batches of files are added and files are removed    *)
(* by name, up to MaxKnowledgeFiles files.                                 *)

KnowledgeFile(name, content) == [name |-> name, content |-> content]

\* Files of two names, each with two contents.
KnowledgeNames == {<<"k">>, <<"m">>}

KnowledgeFiles ==
  {KnowledgeFile(n, c) : n \in KnowledgeNames,
                         c \in {<<"r", "u", "l", "e">>, <<"n", "o", "t", "e">>}}

\* What the file input of KnowledgeBaseModal (lines 16-33) can hand over:
\* the files of one selection, in their order.
KnowledgeBatches == SeqsUpTo(KnowledgeFiles, MaxBatch)

HandleAddKnowledgeFiles(newFiles) ==
  /\ Len(chat.knowledgeFiles) + Len(newFiles) <= MaxKnowledgeFiles
  /\ chat' = [chat EXCEPT !.knowledgeFiles = AddKnowledgeFiles(@, newFiles)]
  /\ last' = [NoQuery EXCEPT !.op = "addKnowledgeFiles", !.args = newFiles]
  /\ UNCHANGED <<csvData, first, queries>>

\* The button of a file that is listed, KnowledgeBaseModal line 75.
HandleRemoveKnowledgeFile(fileName) ==
  /\ \E i \in DOMAIN chat.knowledgeFiles : chat.knowledgeFiles[i].name = fileName
  /\ chat' = [chat EXCEPT !.knowledgeFiles = RemoveKnowledgeFile(@, fileName)]
  /\ last' = [NoQuery EXCEPT !.op = "removeKnowledgeFile", !.args = <<fileName>>]
  /\ UNCHANGED <<csvData, first, queries>>

InitKnowledge == InitWith(ChatDatasets)

NextKnowledge ==
  \/ \E newFiles \in KnowledgeBatches : HandleAddKnowledgeFiles(newFiles)
  \/ \E fileName \in KnowledgeNames : HandleRemoveKnowledgeFile(fileName)

SpecKnowledge == InitKnowledge /\ [][NextKnowledge]_vars


(* The session of the App of src/unnamed/part_000, which can discard the   *)
(* dataset: files are chosen and parsed, questions are sent, their         *)
(* responses arrive in any order, and the dataset is discarded by          *)
(* "Analyze another file".  chat holds, besides messages and isLoading,    *)
(* the calls in flight (pending), the number of files loaded so far        *)
(* (loads) and the file being parsed (parsing).                            *)

\* csvData is null: no dataset is loaded.
NullData == [headers |-> <<>>, rows |-> <<>>, null |-> TRUE]

IsNull(data) == "null" \in DOMAIN data

NoChoice == [set |-> FALSE, data |-> NullData]

\* Lines 17-21: the state of App when it is mounted.
NoSession ==
  [messages |-> <<>>, isLoading |-> FALSE, pending |-> {}, loads |-> 0,
   parsing |-> NoChoice]

\* A call in flight: the question, the dataset handleSendMessage closed
\* over, and which load that dataset came from.
PendingCall(id, text, data, load) ==
  [id |-> id, question |-> text, csvData |-> data, load |-> load]

\* Lines 122 and 125-129: the message of a response, computed from the
\* dataset of the call, and the message of the catch.
ResponseMessage(call, outcome) ==
  [role |-> "model",
   content |-> <<[type |-> "markdown",
                  data |-> [kind |-> IF outcome = "resolved" THEN "answer"
                                     ELSE "answerError",
                            question |-> call.question, load |-> call.load]]>>]

ParseErrorMessage ==
  [role |-> "model", content |-> <<[type |-> "markdown", data |-> [kind |-> "parseError"]]>>]

\* handleFileChange, lines 40-47: a file is chosen on the upload view,
\* whose button is disabled while isLoading (line 174), and Papa.parse
\* starts.
HandleFileChange(data) ==
  /\ IsNull(csvData)
  /\ ~chat.isLoading
  /\ ~chat.parsing.set
  /\ chat.loads < MaxLoads
  /\ chat' = [chat EXCEPT !.isLoading = TRUE, !.parsing = [set |-> TRUE, data |-> data]]
  /\ UNCHANGED <<csvData, last, first, queries>>

\* The complete callback, lines 50-65
ParseComplete ==
  /\ chat.parsing.set
  /\ csvData' = chat.parsing.data
  /\ chat' = [chat EXCEPT !.messages = <<Welcome>>, !.isLoading = FALSE,
                          !.parsing = NoChoice, !.loads = @ + 1]
  /\ UNCHANGED <<last, first, queries>>

\* The error callback, lines 66-78
ParseError ==
  /\ chat.parsing.set
  /\ chat' = [chat EXCEPT !.messages = <<ParseErrorMessage>>, !.isLoading = FALSE,
                          !.parsing = NoChoice]
  /\ UNCHANGED <<csvData, last, first, queries>>

\* handleSendMessage, lines 83-96, up to the first await.
HandleSendMessage(text) ==
  /\ queries < MaxQueries
  /\ text # <<>>
  /\ ~chat.isLoading
  /\ ~IsNull(csvData)
  /\ chat' = [chat EXCEPT
                !.messages = Append(@, UserMessage(text)),
                !.isLoading = TRUE,
                !.pending = @ \cup {PendingCall(queries + 1, text, csvData, chat.loads)}]
  /\ queries' = queries + 1
  /\ UNCHANGED <<csvData, last, first>>

\* handleSendMessage, lines 98-134, after the awaits: the response of a
\* call in flight arrives (or the call fails), its message is appended to
\* the chat history as it is then, and isLoading is reset.
ResponseArrives(id, outcome) ==
  /\ \E call \in chat.pending :
       /\ call.id = id
       /\ chat' = [chat EXCEPT !.messages = Append(@, ResponseMessage(call, outcome)),
                               !.isLoading = FALSE,
                               !.pending = @ \ {call}]
  /\ UNCHANGED <<csvData, last, first, queries>>

\* "Analyze another file", line 237, and the effect of lines 32-38 that
\* follows setCsvData(null): the chat history is emptied and isLoading is
\* reset.  The calls in flight are not touched.
AnalyzeAnotherFile ==
  /\ ~IsNull(csvData)
  /\ csvData' = NullData
  /\ chat' = [chat EXCEPT !.messages = <<>>, !.isLoading = FALSE]
  /\ UNCHANGED <<last, first, queries>>

SessionPrompts == {FindTrackingNumberMismatches, ShowDistributionOfCarrier, <<>>}

InitSession ==
  /\ csvData = NullData
  /\ last = NoQuery
  /\ first = NoQuery
  /\ queries = 0
  /\ chat = NoSession

NextSession ==
  \/ \E data \in ChatDatasets : HandleFileChange(data)
  \/ ParseComplete
  \/ ParseError
  \/ \E text \in SessionPrompts : HandleSendMessage(text)
  \/ \E id \in 1..MaxQueries, outcome \in {"resolved", "rejected"} :
       ResponseArrives(id, outcome)
  \/ AnalyzeAnotherFile

SpecSession == InitSession /\ [][NextSession]_vars


(* The colours of the chart: one call of handleDistribution on a           *)
(* one-column dataset of up to MaxHueValues rows with 1, 2, ... distinct   *)
(* values, which is more values than the cap of line 46.                   *)

Digits == <<"0", "1", "2", "3", "4", "5", "6", "7", "8", "9">>

\* The v-th value of the column, a text that is no array index.
HueValue(v) == <<"v", Digits[(v \div 10) + 1], Digits[(v % 10) + 1]>>

\* n rows that take k values in turn.
HueRows(n, k) == [j \in 1..n |-> (Carrier :> HueValue(((j - 1) % k) + 1))]

HueDatasets ==
  {[headers |-> <<Carrier>>, rows |-> HueRows(n, k)] :
     n \in 0..MaxHueValues, k \in 1..MaxHueValues}

InitHues == InitWith(HueDatasets)

NextHues ==
  /\ queries = 0
  /\ DoDistribution(Carrier)

SpecHues == InitHues /\ [][NextHues]_vars

---------------------------------------------------------------------------

(* Properties of executePlan, checked under SpecExec.                      *)

Headers == {csvData.headers[i] : i \in DOMAIN csvData.headers}

\* executePlan was called and returned (it did not throw).
Returned == last.op = "executePlan" /\ last.status = "ok"

PlanFilters == ListOf(last.plan.filters)

PlanCalculations == {ListOf(last.plan.calculations)[i] :
                       i \in DOMAIN ListOf(last.plan.calculations)}

\* A cell that is empty or holds white space only.
IsBlank(text) == Trim(text) = <<>>

\* C1: with the single filter {column: C, operator: is_empty} on a column C
\* of the dataset, executePlan returns exactly the rows whose C cell is
\* blank or white space only, and with is_not_empty exactly the other rows
\* (so the two results are disjoint and together are all the rows).
C1_EmptyFiltersSplitOnBlank ==
  (/\ Returned
   /\ Len(PlanFilters) = 1
   /\ PlanFilters[1].column \in Headers
   /\ PlanFilters[1].operator \in {"is_empty", "is_not_empty"})
  => LET column == PlanFilters[1].column
     IN  IF PlanFilters[1].operator = "is_empty"
         THEN last.subset.rows = SelectSeq(csvData.rows, LAMBDA r : IsBlank(r[column]))
         ELSE last.subset.rows = SelectSeq(csvData.rows, LAMBDA r : ~IsBlank(r[column]))

SatisfiesAll(row) == \A i \in DOMAIN PlanFilters : KeepRow(PlanFilters[i], row)

\* C2: when count is among the calculations, metrics.count is the length
\* of the returned subset, which is the number of rows of the dataset that
\* satisfy every filter; with no filter it is the number of rows of the
\* dataset (0 for a dataset without rows).
C2_CountIsSubsetSize ==
  (Returned /\ "count" \in PlanCalculations)
  => /\ "count" \in DOMAIN last.metrics
     /\ last.metrics["count"] = Num(Len(last.subset.rows))
     /\ Len(last.subset.rows) =
          Cardinality({i \in DOMAIN csvData.rows : SatisfiesAll(csvData.rows[i])})
     /\ PlanFilters = <<>> => last.metrics["count"] = Num(Len(csvData.rows))

\* A filtered count: some rows kept, some dropped.
C2_Witness ==
  /\ Returned
  /\ "count" \in PlanCalculations
  /\ PlanFilters # <<>>
  /\ last.metrics["count"].num > 0
  /\ last.metrics["count"].num < Len(csvData.rows)

\* sub is rows with some of its elements left out, the others in order.
IsSubsequence(sub, rows) ==
  \E at \in [DOMAIN sub -> DOMAIN rows] :
    /\ \A i, j \in DOMAIN sub : i < j => at[i] < at[j]
    /\ \A i \in DOMAIN sub : sub[i] = rows[at[i]]

C9_AbsentColumnIsEmptyCell ==
  (/\ last.op = "executePlan"
   /\ Len(PlanFilters) = 1
   /\ PlanFilters[1].column \notin Headers)
  => /\ last.status = "ok"
     /\ PlanFilters[1].operator = "is_empty" => last.subset.rows = csvData.rows
     /\ PlanFilters[1].operator = "is_not_empty" => last.subset.rows = <<>>
     /\ (PlanFilters[1].operator = "equals" /\ last.subset.rows # <<>>)
          => PlanFilters[1].value = Str(<<>>)

AbsentColumnFilters == {i \in DOMAIN PlanFilters : PlanFilters[i].column \notin Headers}

\* C10 as stated, for a dataset that has rows: a filter on a column that
\* is no header makes executePlan report an error.
C10_AbsentColumnIsReported ==
  (last.op = "executePlan" /\ AbsentColumnFilters # {} /\ csvData.rows # <<>>)
  => last.status # "ok"

\* C10 as amended: a filter on a column that is no header is not reported
\* as such.  When executePlan returns, the filter was evaluated with an
\* empty cell, so is_not_empty on that column has silently matched nothing;
\* when it does not return, the dataset has rows and the name is one every
\* object inherits from Object.prototype (the TypeError of line 22).
C10_AbsentColumnMatchesSilently ==
  (last.op = "executePlan" /\ AbsentColumnFilters # {})
  => /\ last.status = "ok"
          => \A i \in AbsentColumnFilters :
               PlanFilters[i].operator = "is_not_empty" => last.subset.rows = <<>>
     /\ last.status # "ok"
          => /\ csvData.rows # <<>>
             /\ \E i \in AbsentColumnFilters : PlanFilters[i].column \in ObjectPrototypeKeys

\* is_not_empty on a column the dataset lacks: no error, and no row of a
\* dataset that has rows.
C10_Witness ==
  /\ Returned
  /\ Len(PlanFilters) = 1
  /\ PlanFilters[1].column = NoSuchColumn
  /\ PlanFilters[1].operator = "is_not_empty"
  /\ csvData.rows # <<>>
  /\ last.subset.rows = <<>>

---------------------------------------------------------------------------
(* Properties of the local handlers, checked under SpecLocal.              *)

RECURSIVE SumTo(_, _)
SumTo(numbers, n) == IF n = 0 THEN 0 ELSE numbers[n] + SumTo(numbers, n - 1)

\* The sum of a sequence of integers.
Sum(numbers) == SumTo(numbers, Len(numbers))

Abs(x) == IF x < 0 THEN -x ELSE x

\* handleDistribution was called for a column of the dataset.
DistributionDone ==
  last.op = "distribution" /\ HasHeader(csvData, CleanColumn(last.args[1]))

TableRows == last.blocks[3].data.rows

\* C3, for a dataset that has rows: the counts of the table are numbers
\* that sum to the number of rows, each percentage is count / rows * 100 to
\* two decimals, and the percentages sum to 100% within the rounding of
\* the table's rows.  (For a dataset without rows the table is empty and
\* the percentages sum to 0.)
C3_CountsAndPercentagesAddUp ==
  (DistributionDone /\ csvData.rows # <<>>)
  => LET total == Len(csvData.rows)
     IN  /\ \A i \in DOMAIN TableRows : TableRows[i].count.isNumber
         /\ Sum([i \in DOMAIN TableRows |-> TableRows[i].count.n]) = total
         /\ \A i \in DOMAIN TableRows :
              /\ ~TableRows[i].percentage.nan
              /\ 2 * Abs(TableRows[i].percentage.hundredths * total
                         - 10000 * TableRows[i].count.n) <= total
         /\ 2 * Abs(Sum([i \in DOMAIN TableRows |-> TableRows[i].percentage.hundredths]) - 10000)
              <= Len(TableRows)

\* What the table shows for a cell: N/A for an empty one.
Shown(cell) == IF cell = <<>> THEN NotAvailable ELSE cell

ShownValues(column) == {Shown(csvData.rows[i][column]) : i \in DOMAIN csvData.rows}

Occurrences(column, value) ==
  Cardinality({i \in DOMAIN csvData.rows : Shown(csvData.rows[i][column]) = value})

\* C4: for a column of the dataset the handler returns a markdown, a chart
\* and a table block, in this order; the table rows and the chart labels
\* list each distinct value once with its count, the counts never
\* increasing down the list; the chart is a pie for at most 5 distinct
\* values and a bar chart for more.
C4_DistributionBlocks ==
  DistributionDone
  => LET column == CleanColumn(last.args[1])
         chart == last.blocks[2].data
     IN  /\ [i \in DOMAIN last.blocks |-> last.blocks[i].type]
              = <<"markdown", "chart", "table">>
         /\ chart.labels = [i \in DOMAIN TableRows |-> TableRows[i].value]
         /\ {chart.labels[i] : i \in DOMAIN chart.labels} = ShownValues(column)
         /\ Len(chart.labels) = Cardinality(ShownValues(column))
         /\ \A i \in DOMAIN TableRows :
              /\ TableRows[i].count.isNumber
              /\ TableRows[i].count.n = Occurrences(column, TableRows[i].value)
              /\ chart.data[i] = TableRows[i].count
         /\ \A i, j \in DOMAIN TableRows :
              i < j => TableRows[i].count.n >= TableRows[j].count.n
         /\ chart.type = IF Cardinality(ShownValues(column)) <= 5 THEN "pie" ELSE "bar"

\* handleContainmentPercentage was called for two columns of a dataset
\* that has rows.
ContainmentDone ==
  /\ last.op = "containment"
  /\ HasHeader(csvData, CleanColumn(last.args[1]))
  /\ HasHeader(csvData, CleanColumn(last.args[2]))
  /\ csvData.rows # <<>>

\* b occurs in a, character for character.
IsSubstring(b, a) == \E i, j \in 0..Len(a) : SubSeq(a, i + 1, j) = b

\* The rows in which both cells are non-empty and the first holds the second.
ContainingRows ==
  LET colA == CleanColumn(last.args[1])
      colB == CleanColumn(last.args[2])
  IN  {i \in DOMAIN csvData.rows :
         /\ csvData.rows[i][colA] # <<>>
         /\ csvData.rows[i][colB] # <<>>
         /\ IsSubstring(csvData.rows[i][colB], csvData.rows[i][colA])}

\* C5: for two columns of a dataset that has rows, the handler returns one
\* card; its value is the percentage, to two decimals, of the rows in which
\* both cells are non-empty and the first contains the second (case
\* matters), and 0.00% when there is no such row.
C5_ContainmentPercentage ==
  ContainmentDone
  => LET total == Len(csvData.rows)
         k == Cardinality(ContainingRows)
     IN  /\ Len(last.blocks) = 1
         /\ last.blocks[1].type = "card"
         /\ last.blocks[1].data.kind = "containment"
         /\ 2 * Abs(last.blocks[1].data.hundredths * total - 10000 * k) <= total
         /\ k = 0 => last.blocks[1].data.hundredths = 0

\* 50.00%: of two rows one contains the other cell, and one would only if
\* case were ignored.
C5_Witness ==
  /\ ContainmentDone
  /\ Len(csvData.rows) = 2
  /\ Cardinality(ContainingRows) = 1
  /\ last.blocks[1].data.hundredths = 5000
  /\ \E i \in DOMAIN csvData.rows :
       LET a == csvData.rows[i][CleanColumn(last.args[1])]
           b == csvData.rows[i][CleanColumn(last.args[2])]
       IN  b # <<>> /\ ~IsSubstring(b, a) /\ IsSubstring(ToLowerCase(b), ToLowerCase(a))

---------------------------------------------------------------------------
(* Properties of runs of several queries, checked under Spec.              *)

---------------------------------------------------------------------------
(* Properties of the filter operators, checked under SpecOperators.        *)

KnownOperators == {"equals", "not_equals", "contains", "is_empty", "is_not_empty"}

UnknownOperatorFilters ==
  {i \in DOMAIN PlanFilters : PlanFilters[i].operator \notin KnownOperators}

\* seq without its i-th element.
Without(seq, i) == SubSeq(seq, 1, i - 1) \o SubSeq(seq, i + 1, Len(seq))

\* C11: a plan that holds a filter with an operator other than equals,
\* not_equals, contains, is_empty, is_not_empty raises no error, and
\* returns the rows and the metrics it returns without that filter: the
\* filter keeps every row and the others are applied.
C11_UnknownOperatorKeepsEveryRow ==
  (last.op = "executePlan" /\ UnknownOperatorFilters # {})
  => /\ last.status = "ok"
     /\ \A i \in UnknownOperatorFilters :
          LET others == ApplyFilters(Without(PlanFilters, i), csvData.rows).rows
          IN  /\ last.subset.rows = others
              /\ last.metrics = Metrics(ListOf(last.plan.calculations), others)

\* Two characters that are one letter, in either case.
SameLetter(x, y) == ToLowerChar(x) = ToLowerChar(y)

\* Two texts that differ in the case of letters at most.
SameUpToCase(a, b) ==
  Len(a) = Len(b) /\ \A k \in DOMAIN a : SameLetter(a[k], b[k])

CaseVariants == {Ups, UpsLower, UpsMixed, Fedex, <<"P">>, <<"p">>}

ComparisonFilters ==
  {i \in DOMAIN PlanFilters : PlanFilters[i].operator \in {"equals", "not_equals", "contains"}}

\* The rows of the subset, as a set.
KeptRows == {last.subset.rows[i] : i \in DOMAIN last.subset.rows}

\* C12: equals, not_equals and contains ignore the case of letters.  When
\* executePlan returns, it returns the same rows for every value of such a
\* filter that differs from the given one in case only; and under a single
\* such filter two rows whose cells differ in case only are kept or
\* dropped together.
C12_ComparisonsIgnoreCase ==
  Returned
  => /\ \A i \in ComparisonFilters : \A v \in CaseVariants :
          SameUpToCase(v, PlanFilters[i].value.s)
          => ApplyFilters([PlanFilters EXCEPT ![i].value = Str(v)], csvData.rows).rows
               = last.subset.rows
     /\ (Len(PlanFilters) = 1 /\ ComparisonFilters # {})
          => \A m, n \in DOMAIN csvData.rows :
               SameUpToCase(csvData.rows[m][PlanFilters[1].column],
                            csvData.rows[n][PlanFilters[1].column])
               => (csvData.rows[m] \in KeptRows <=> csvData.rows[n] \in KeptRows)

\* equals with the value Ups keeps both the row that holds UPS and the row
\* that holds ups.
C12_Witness ==
  /\ Returned
  /\ Len(PlanFilters) = 1
  /\ PlanFilters[1] = Filter(Carrier, "equals", Str(UpsMixed))
  /\ Len(last.subset.rows) = 2
  /\ last.subset.rows[1][Carrier] = Ups
  /\ last.subset.rows[2][Carrier] = UpsLower

---------------------------------------------------------------------------
(* Further properties of executePlan, checked under SpecExec.              *)

\* The plan of the last call with its filters in the order p.
Permuted(p) ==
  [last.plan EXCEPT !.filters = Present([i \in DOMAIN PlanFilters |-> PlanFilters[p[i]]])]

\* C13: executePlan returns exactly the rows that satisfy every filter of
\* the plan, in their order, and with the filters in any other order it
\* returns too, with the same rows and the same metrics.
C13_FiltersAreConjunctive ==
  Returned
  => /\ last.subset.rows = SelectSeq(csvData.rows, SatisfiesAll)
     /\ \A p \in Arrangements(PlanFilters) :
          LET other == ExecutePlan(Permuted(p), csvData)
          IN  /\ other.status = "ok"
              /\ other.subset = last.subset
              /\ other.metrics = last.metrics

\* The rows of the last call are none.
NoRowLeft == Returned /\ last.subset.rows = <<>>

\* C14: when no row is left after the filters, every calculation the plan
\* asks for is in metrics with the value 0.
C14_NoRowsGiveZero ==
  NoRowLeft
  => \A c \in PlanCalculations : c \in DOMAIN last.metrics /\ last.metrics[c] = Num(0)

\* The three calculations over a dataset that has rows, none of which the
\* filters keep.
C14_Witness ==
  /\ NoRowLeft
  /\ csvData.rows # <<>>
  /\ PlanFilters # <<>>
  /\ PlanCalculations = {"count", "mismatch_rate", "missing_po_rate"}
  /\ \A c \in PlanCalculations : last.metrics[c] = Num(0)

---------------------------------------------------------------------------
(* Properties of the two rates, checked under SpecRates.                   *)

\* executePlan returned some rows.
SomeRowsLeft == Returned /\ last.subset.rows # <<>>

\* The cell of a row, empty when the row has no such field.
Cell(row, column) == IF column \in DOMAIN row THEN row[column] ELSE <<>>

\* The rows of the subset whose vend_track_no is not empty and is not
\* their tracking_no.
MismatchedRows ==
  {i \in DOMAIN last.subset.rows :
     /\ Cell(last.subset.rows[i], VendTrackNo) # <<>>
     /\ Cell(last.subset.rows[i], VendTrackNo) # Cell(last.subset.rows[i], TrackingNo)}

\* C15: over a subset that has rows, mismatch_rate is 100 * m / total, m
\* being the number of rows of the subset whose vend_track_no is not empty
\* and differs from tracking_no, total the number of rows of the subset.
C15_MismatchRate ==
  (SomeRowsLeft /\ "mismatch_rate" \in PlanCalculations)
  => /\ "mismatch_rate" \in DOMAIN last.metrics
     /\ last.metrics["mismatch_rate"].den > 0
     /\ last.metrics["mismatch_rate"].num * Len(last.subset.rows)
          = 100 * Cardinality(MismatchedRows) * last.metrics["mismatch_rate"].den

\* The pairs (A, A), (B, C), (D, empty): one mismatch in three rows, 33.33%.
C15_Witness ==
  /\ SomeRowsLeft
  /\ PlanFilters = <<>>
  /\ [i \in DOMAIN csvData.rows |->
        <<csvData.rows[i][TrackingNo], csvData.rows[i][VendTrackNo]>>]
       = <<<<<<"A">>, <<"A">>>>, <<<<"B">>, <<"C">>>>, <<<<"D">>, <<>>>>>>
  /\ ToFixed2(last.metrics["mismatch_rate"]) = 3333

\* The rows of the subset whose return_po is empty or missing.
MissingPoRows ==
  {i \in DOMAIN last.subset.rows : Cell(last.subset.rows[i], ReturnPo) = <<>>}

\* C16: over a subset that has rows, missing_po_rate is 100 * p / total, p
\* being the number of rows of the subset whose return_po is empty or
\* absent, and lies between 0 and 100.
C16_MissingPoRate ==
  (SomeRowsLeft /\ "missing_po_rate" \in PlanCalculations)
  => LET rate == last.metrics["missing_po_rate"]
     IN  /\ "missing_po_rate" \in DOMAIN last.metrics
         /\ rate.den > 0
         /\ rate.num * Len(last.subset.rows) = 100 * Cardinality(MissingPoRows) * rate.den
         /\ 0 <= rate.num /\ rate.num <= 100 * rate.den

\* A sheet without a return_po column: every row misses its PO, 100%.
C16_Witness ==
  /\ SomeRowsLeft
  /\ ~HasHeader(csvData, ReturnPo)
  /\ Len(last.subset.rows) > 1
  /\ last.metrics["missing_po_rate"].num = 100 * last.metrics["missing_po_rate"].den

---------------------------------------------------------------------------
(* A further property of the local handlers, checked under SpecLocal.      *)

\* handleUniqueCount was called for a column of the dataset.
UniqueCountDone ==
  last.op = "uniqueCount" /\ HasHeader(csvData, CleanColumn(last.args[1]))

\* The texts of the column, the empty one left out.
DistinctValues(column) ==
  {Cell(csvData.rows[i], column) : i \in DOMAIN csvData.rows} \ {<<>>}

\* C20: for a column of the dataset the handler returns one card, whose
\* value is the number of different non-empty texts in the cells of the
\* column (0 for a dataset without rows).
C20_UniqueCount ==
  UniqueCountDone
  => /\ Len(last.blocks) = 1
     /\ last.blocks[1].type = "card"
     /\ last.blocks[1].data.kind = "uniqueCount"
     /\ last.blocks[1].data.value = Cardinality(DistinctValues(CleanColumn(last.args[1])))
     /\ csvData.rows = <<>> => last.blocks[1].data.value = 0

\* Two rows, one of them with an empty cell: one value.
C20_Witness ==
  /\ UniqueCountDone
  /\ Len(csvData.rows) = 2
  /\ \E i \in DOMAIN csvData.rows : csvData.rows[i][CleanColumn(last.args[1])] = <<>>
  /\ last.blocks[1].data.value = 1

---------------------------------------------------------------------------
(* Properties of the chat, checked under SpecChat.                         *)

\* The step appends a question to the chat: sendMessage accepted it.
QuestionAccepted ==
  /\ Len(chat'.messages) > Len(chat.messages)
  /\ chat'.messages[Len(chat.messages) + 1].role = "user"

\* The question the step appends.
AcceptedQuestion == chat'.messages[Len(chat.messages) + 1].content[1].data.text

\* C17: a step that accepts a question either finds a pattern that matches
\* it, appends the blocks of tryLocalAnalysis as the answer and calls
\* generateInsights not, or finds none and calls generateInsights with the
\* dataset, the question and the knowledge text; no other step calls
\* generateInsights, so every call was for a question no pattern matches.
C17_AnalystOnlyWithoutMatch ==
  [][/\ QuestionAccepted =>
          LET results == TryLocalAnalysis(AcceptedQuestion, csvData)
          IN  IF NoMatch \notin results
              THEN /\ chat'.calls = chat.calls
                   /\ ~chat'.isLoading
                   /\ \E r \in results :
                        chat'.messages = chat.messages
                          \o <<UserMessage(AcceptedQuestion), ModelMessage(r.blocks)>>
              ELSE /\ chat'.messages = Append(chat.messages, UserMessage(AcceptedQuestion))
                   /\ chat'.calls =
                        Append(chat.calls,
                               [csvData |-> csvData, prompt |-> AcceptedQuestion,
                                knowledgeContent |-> KnowledgeContent(chat.knowledgeFiles)])
     /\ ~QuestionAccepted => chat'.calls = chat.calls
     /\ \A i \in DOMAIN chat'.calls :
          TryLocalAnalysis(chat'.calls[i].prompt, chat'.calls[i].csvData) = {NoMatch}]_vars

\* One question went to generateInsights, with a knowledge file, and a
\* later one was answered by a local handler.
C17_Witness ==
  /\ Len(chat.calls) = 1
  /\ chat.calls[1].knowledgeContent # <<>>
  /\ last.op \in {"uniqueCount", "distribution", "containment"}
  /\ last.seq > 1
  /\ ~chat.isLoading

\* The last question of the chat.
LastQuestion ==
  LET asked == {i \in DOMAIN chat.messages : chat.messages[i].role = "user"}
  IN  IF asked = {} THEN <<>>
      ELSE chat.messages[CHOOSE i \in asked : \A j \in asked : j <= i].content[1].data.text

\* The last question was answered by a local handler.
LocallyAnswered == last.op \in {"uniqueCount", "distribution", "containment"}

\* The columns the handler was called with that are no header.
MissingColumns ==
  SelectSeq([i \in DOMAIN last.args |-> CleanColumn(last.args[i])],
            LAMBDA c : ~HasHeader(csvData, c))

\* C18: when a column the handler was called with is no header, the answer
\* is one markdown block that names the columns that are missing, and
\* those only; and the question "unique count of carrier" on a sheet
\* without the column carrier is answered by the block that names carrier.
C18_MissingColumnIsNamed ==
  /\ (LocallyAnswered /\ MissingColumns # <<>>)
       => last.blocks = ColumnNotFound(MissingColumns)
  /\ (LastQuestion = UniqueCountOfCarrier /\ ~HasHeader(csvData, Carrier))
       => last.blocks = ColumnNotFound(<<Carrier>>)

\* LastQuestion as tryLocalAnalysis matches it.
CleanLastQuestion == [i \in DOMAIN LastQuestion |-> ToLowerCase(LastQuestion[i])]

\* The patterns that match the last question.
MatchingPatterns == {k \in DOMAIN PATTERNS : MatchStarts(k, CleanLastQuestion) # {}}

\* C19: the handler that answers a question is that of the first pattern
\* of PATTERNS that matches it, called with the groups of that match; so
\* a question that one of the two containment patterns matches is
\* answered by the containment handler, whatever later pattern matches too.
C19_FirstPatternWins ==
  (LastQuestion # <<>>)
  => /\ MatchingPatterns = {} <=> last.op = "generateInsights"
     /\ \A k \in MatchingPatterns :
          (\A n \in MatchingPatterns : k <= n)
          => /\ last.op = PATTERNS[k].handler
             /\ last.args = MatchArgs(k, CleanLastQuestion)
     /\ MatchingPatterns \cap {1, 2} # {} => last.op = "containment"

\* A question the first pattern and the distribution pattern both match,
\* answered by the containment handler.
C19_Witness ==
  /\ LastQuestion = ContainmentAndDistribution
  /\ {1, 6} \subseteq MatchingPatterns
  /\ last.op = "containment"
  /\ last.args = <<TrackingNo, VendTrackNo>>

---------------------------------------------------------------------------
(* The containment percentage of a dataset without rows, checked under     *)
(* SpecLocal.                                                              *)

\* handleContainmentPercentage was called with two columns of a dataset
\* that has no row.
ContainmentOfNoRows ==
  /\ last.op = "containment"
  /\ HasHeader(csvData, CleanColumn(last.args[1]))
  /\ HasHeader(csvData, CleanColumn(last.args[2]))
  /\ csvData.rows = <<>>

\* C21: on a dataset with no rows, the containment percentage of two
\* existing columns is one card whose value is 0% and which says there is
\* no data: no quotient by the number of rows is formed.
C21_NoRowsGiveZeroPercent ==
  ContainmentOfNoRows
  => /\ Len(last.blocks) = 1
     /\ last.blocks[1].type = "card"
     /\ last.blocks[1].data.kind = "noData"
     /\ last.blocks[1].data.value = <<"0", "%">>
     /\ DOMAIN last.blocks[1].data = {"kind", "value"}

\* The handler ran on the two headers of a dataset without rows, the second
\* given in quotes.
C21_Witness ==
  /\ ContainmentOfNoRows
  /\ last.args[1] = TrackingNo
  /\ last.args[2] = <<"dq">> \o VendTrackNo \o <<"dq", " ">>
  /\ last.blocks # <<>>

---------------------------------------------------------------------------
(* The colours of the distribution chart, checked under SpecHues.          *)

ChartLabels == last.blocks[2].data.labels

ChartColours == last.blocks[2].data.backgroundColor

\* The quotients a and b are the same number.
SameNumber(a, b) == a.num * b.den = b.num * a.den

\* The quotient h lies in [0, 360).
InCircle(h) == h.den > 0 /\ 0 <= h.num /\ h.num < FullCircle * h.den

\* The quotient h is (i * 360 / steps) mod 360: it lies in [0, 360) and
\* differs from i * 360 / steps by a multiple of 360.
IsHueOf(h, i, steps) ==
  /\ InCircle(h)
  /\ (i * FullCircle * h.den - h.num * steps) % (FullCircle * steps * h.den) = 0

\* The hues follow the formula of line 46, one per label.
HuesFollowFormula ==
  LET n == Len(ChartLabels)
  IN  /\ Len(ChartColours) = n
      /\ \A i \in 1..n : IsHueOf(ChartColours[i], i - 1, Min(n, MaxHueSteps))

\* C25 as the specification states it: the i-th value gets the hue
\* (i * 360 / min(n, 20)) mod 360, there is one colour per label, and the
\* hues of the distinct values are pairwise distinct.
C25_HuesPairwiseDistinct ==
  DistributionDone
  => /\ HuesFollowFormula
     /\ \A i, j \in DOMAIN ChartColours :
          i # j => ~SameNumber(ChartColours[i], ChartColours[j])

\* C25, amended: the i-th value gets the hue (i * 360 / min(n, 20)) mod
\* 360 and there is one colour per label; the hues are pairwise distinct
\* when there are at most 20 distinct values, and with more of them the
\* hues repeat every 20 values.
C25_HuesRepeatBeyondCap ==
  DistributionDone
  => /\ HuesFollowFormula
     /\ \A i, j \in DOMAIN ChartColours :
          SameNumber(ChartColours[i], ChartColours[j])
            <=> (i - j) % MaxHueSteps = 0

\* A chart of more than 20 values, the first and the twenty-first of the
\* same hue.
C25_Witness ==
  /\ DistributionDone
  /\ Len(ChartLabels) > MaxHueSteps
  /\ SameNumber(ChartColours[1], ChartColours[MaxHueSteps + 1])

---------------------------------------------------------------------------
(* Comparisons without a value, checked under SpecAbsentValue.             *)

\* The text a comparison would use if an absent value stood for the empty
\* text.
ValueOrEmpty(filter) == IF filter.value.t = "undefined" THEN <<>> ELSE filter.value.s

\* The row passes the filter when an absent value is the empty text.
PassesWithEmptyDefault(filter, row) ==
  LET cell == ToLowerCase(Cell(row, filter.column))
      value == ToLowerCase(ValueOrEmpty(filter))
  IN  CASE filter.operator = "equals" -> cell = value
        [] filter.operator = "not_equals" -> cell # value
        [] filter.operator = "contains" -> IsSubstring(value, cell)

\* C27: a comparison (equals, not_equals, contains) whose value is absent
\* is made against the empty text: equals keeps exactly the rows whose cell
\* is empty, not_equals those whose cell is not, and contains every row.
C27_AbsentValueIsEmptyText ==
  (Returned /\ \A i \in DOMAIN PlanFilters :
                 PlanFilters[i].operator \in {"equals", "not_equals", "contains"})
  => last.subset.rows =
       SelectSeq(csvData.rows,
                 LAMBDA row : \A i \in DOMAIN PlanFilters :
                                PassesWithEmptyDefault(PlanFilters[i], row))

---------------------------------------------------------------------------
(* Questions that name a header, checked under SpecHeaders.                *)

\* C26: a question that names a header H of the dataset exactly as the
\* dataset writes it ("show distribution of H", "count unique H") is
\* answered with the result of the handler on column H, never with the
\* block that says the column was not found, whatever the case of the
\* letters of H.
C26_HeaderIsFoundAsWritten ==
  \A h \in Headers :
    /\ LastQuestion = ShowDistributionOf(h)
         => /\ last.op = "distribution"
            /\ last.blocks \in HandleDistribution(h, csvData)
            /\ last.blocks # ColumnNotFound(<<ToLowerCase(h)>>)
    /\ LastQuestion = CountUnique(h)
         => /\ last.op = "uniqueCount"
            /\ last.blocks = HandleUniqueCount(h, csvData)
            /\ last.blocks # ColumnNotFound(<<ToLowerCase(h)>>)

---------------------------------------------------------------------------
(* Properties of generateInsights, checked under SpecInsights.             *)

\* generateInsights resolved, and the planner had given a plan.
InsightsWithPlan == last.op = "insights" /\ last.planned.kind = "plan"

\* C22: when the action of the plan is direct_analysis, executePlan is not
\* called, whatever filters and calculations the plan has: the analyst is
\* sent the text of the whole dataset (every row, every header) and the
\* question as the user wrote it, without a summary of metrics.
C22_DirectAnalysisSkipsExecution ==
  (InsightsWithPlan /\ last.planned.plan.action = "direct_analysis")
  => LET sent == last.result.input
         data == last.call.csvData
     IN  /\ ~last.result.executed
         /\ last.result.asked
         /\ sent.request = [question |-> last.call.prompt, metricsSummary |-> Absent]
         /\ sent.knowledgeContent = last.call.knowledgeContent
         /\ data.rows # <<>>
              => /\ sent.dataAsText.header = data.headers
                 /\ Len(sent.dataAsText.lines) = Len(data.rows)
                 /\ \A i \in DOMAIN data.rows, j \in DOMAIN data.headers :
                      sent.dataAsText.lines[i][j] = data.rows[i][data.headers[j]]
         /\ data.rows = <<>> => sent.dataAsText.kind = "noData"
         /\ csvData = data

\* A plan of action direct_analysis that has a filter no row passes and
\* calculations, on a dataset of two rows.
C22_Witness ==
  /\ InsightsWithPlan
  /\ last.planned.plan.action = "direct_analysis"
  /\ last.planned.plan.filters.present
  /\ last.planned.plan.calculations.present
  /\ Len(last.call.csvData.rows) = 2
  /\ ExecutePlan(last.planned.plan, last.call.csvData).subset.rows = <<>>
  /\ Len(last.result.input.dataAsText.lines) = 2


\* Something failed in the call: the planner call or the parse of its
\* text, reading the action of a plan that is null, executePlan, the
\* analyst call or the parse of its text.
InsightsFailed ==
  \/ last.planned.kind # "plan"
  \/ /\ last.planned.plan.action = "filter_and_analyze"
     /\ ExecutePlan(last.planned.plan, last.call.csvData).status # "ok"
  \/ last.answered.kind = "failed"
  \/ last.answered.malformed
  \/ last.answered.wrapping = "plainFence"

\* C24: generateInsights never rejects, and when something fails in it, it
\* resolves with exactly one block, the markdown block of the error; what
\* it resolves with is what the chat shows.
C24_FailuresGiveOneErrorBlock ==
  last.op = "insights"
  => /\ last.result.settled = "resolved"
     /\ chat.messages[Len(chat.messages)] = ModelMessage(last.result.value)
     /\ InsightsFailed
          => /\ last.result.value.json = "array"
             /\ Len(last.result.value.items) = 1
             /\ last.result.value.items[1].type = "markdown"
             /\ last.result.value.items[1].data.kind = "analysisError"

\* executePlan threw inside generateInsights (a filter on the column
\* constructor, on a dataset that has rows), and the chat shows the error
\* block.
C24_Witness ==
  /\ InsightsWithPlan
  /\ last.result.executed
  /\ ExecutePlan(last.planned.plan, last.call.csvData).status = "TypeError"
  /\ last.answered.kind = "text"
  /\ chat.messages[Len(chat.messages)].content = ErrorResponse(FALSE)


\* The four types of AIResponseBlock.
BlockTypes == {"card", "table", "chart", "markdown"}

\* The shape of the data of a block: that of a card, a table or a chart,
\* or a text.  The blocks of the local handlers carry the fields of their
\* data, the blocks of the external model the shape that was written.
DataShape(data) ==
  CASE "shape" \in DOMAIN data -> data.shape
    [] "labels" \in DOMAIN data -> "chart"
    [] "headers" \in DOMAIN data -> "table"
    [] data.kind \in {"uniqueCount", "containment", "noData"} -> "card"
    [] OTHER -> "markdown"

WellFormedBlocks(blocks) ==
  \A i \in DOMAIN blocks :
    /\ blocks[i].type \in BlockTypes
    /\ DataShape(blocks[i].data) = blocks[i].type

\* C23: every answer that is appended to the chat, the blocks of a local
\* handler and the value generateInsights resolves with alike, is a
\* sequence of blocks, each of type card, table, chart or markdown and with
\* data of the shape of its type.
C23_AnswersAreBlockLists ==
  /\ LocallyAnswered => WellFormedBlocks(last.blocks)
  /\ last.op = "insights"
       => /\ chat.messages[Len(chat.messages)].content = last.result.value
          /\ last.result.value.json = "array"
          /\ WellFormedBlocks(last.result.value.items)

---------------------------------------------------------------------------
(* The knowledge files, checked under SpecKnowledge.                       *)

\* C30: whatever batches were added and whatever files removed, no two
\* knowledge files have the same name; and after a file is removed by its
\* name no file has that name.
C30_KnowledgeNamesAreUnique ==
  /\ \A i, j \in DOMAIN chat.knowledgeFiles :
       i # j => chat.knowledgeFiles[i].name # chat.knowledgeFiles[j].name
  /\ last.op = "removeKnowledgeFile"
       => \A i \in DOMAIN chat.knowledgeFiles : chat.knowledgeFiles[i].name # last.args[1]

---------------------------------------------------------------------------
(* The session with discards, checked under SpecSession.                   *)

\* The answers in the chat history: the messages computed from a dataset.
Answers ==
  {i \in DOMAIN chat.messages : chat.messages[i].content[1].data.kind = "answer"}

\* C28: once a dataset was discarded, no answer computed from it is
\* appended to the chat history: every answer in the history was computed
\* from the dataset that is loaded now, also when the discard happened
\* while the call was in flight and another file was loaded before the
\* response arrived.
C28_NoAnswerOfDiscardedDataset ==
  \A i \in Answers :
    /\ ~IsNull(csvData)
    /\ chat.messages[i].content[1].data.load = chat.loads

\* C29: a question is accepted only when it is not blank, a dataset is
\* loaded and no call is in flight, and accepting it appends one message,
\* the question; the response of a call appends one model message and
\* resets isLoading; so a question sent while a call is in flight is
\* ignored.
C29_OneQuestionAtATime ==
  [][/\ QuestionAccepted
          => /\ AcceptedQuestion # <<>>
             /\ ~IsNull(csvData)
             /\ ~chat.isLoading
             /\ chat.pending = {}
             /\ Len(chat'.messages) = Len(chat.messages) + 1
             /\ chat'.isLoading
     /\ (chat'.pending # chat.pending /\ chat'.pending \subseteq chat.pending)
          => /\ Len(chat'.messages) = Len(chat.messages) + 1
             /\ chat'.messages[Len(chat'.messages)].role = "model"
             /\ ~chat'.isLoading]_vars

=============================================================================
